---- MODULE Spec2Model ----
(***************************************************************************)
(* hishel: an HTTP caching layer.  The model covers the two cache wrappers *)
(* (CacheConnectionPool in _sync/_pool.py, CacheTransport in               *)
(* _sync/_transports.py), the controller they consult, and the storage     *)
(* backends of _sync/_storages.py.                                         *)
(*                                                                         *)
(* The controller (hishel/_controller.py), the key deriver and the header  *)
(* parser (hishel/_utils.py, hishel/_headers.py) are not among the source  *)
(* files; their operators below follow sections 4.1-4.3 of the             *)
(* specification and the behaviour the tests in src/tests fix.             *)
(***************************************************************************)
EXTENDS Integers, Sequences, FiniteSets, TLC

\* The clock runs over 0..MaxTime.
MaxTime == 2
\* number_of_uses is capped at MaxUses (a request that would raise it further
\* is not issued).
MaxUses == 1
\* The threads make at most MaxOps store or retrieve calls between them.
MaxOps == 2

VARIABLES
    \* The wrappers (one client, one request at a time).
    storage,      \* the wrapper's storage: cache key -> stored entry
    now,          \* the clock (controller clock, utcnow, time.time, time.monotonic)
    allow_stale,  \* Controller(allow_stale=...)
    cacheable_methods,  \* Controller(cacheable_methods=...)
    wrapper,      \* which wrapper the client uses: "pool" or "transport"
    call,         \* the last handle_request call: its inputs, locals and result
    \* One storage backend instance used by several threads.
    backend,      \* "file", "sqlite" or "memory": the class of the instance
    ttl,          \* self._ttl: <<>> (None) or <<seconds>>
    capacity,     \* InMemoryStorage(capacity=...)
    files,        \* FileStorage: the files under base_path, key -> [data, mtime]
    table,        \* SQLiteStorage: the rows of table cache, in rowid order
    cache,        \* InMemoryStorage._cache: the LFU items, least recently used first
    lock,         \* self._lock: the thread holding it, or "free"
    setup_completed, \* SQLiteStorage._setup_completed
    pc,           \* where each thread is in its store or retrieve call
    arg,          \* the key and entry of each thread's current call
    result,       \* what each thread's last retrieve returned
    ops,          \* the number of calls the threads have made
    last,         \* per key: the entry of the last store to take effect, and when
    swept,        \* a sweep over the stored entries has run since the clock last advanced
    \* The serializers.
    codec,        \* the last dumps / loads round trip: its inputs and results
    \* Several clients of one CacheConnectionPool.
    calls,        \* the handle_request call each client is in, and the last admission
    admitted_at,  \* the time of the last admission from the origin: <<>> or <<time>>
    held,         \* the objects callers of InMemoryStorage still hold that the cache holds too
    twin          \* CacheTransport given the same calls as the pool: its storage and its call

wrapperVars == <<storage, allow_stale, cacheable_methods, wrapper, call>>
backendVars ==
    <<backend, ttl, capacity, files, table, cache, lock, setup_completed,
      pc, arg, result, ops, last, swept>>
auxVars == <<codec, calls, admitted_at, held, twin>>
vars == <<wrapperVars, now, backendVars, auxVars>>

----------------------------------------------------------------------------
(* Headers.  A header list is a function from lower-cased header names to  *)
(* values; "" stands for "no such header".                                 *)

NoHeaders == <<>>

extract_header_value(headers, name) ==
    IF name \in DOMAIN headers THEN headers[name] ELSE ""

\* HeaderParser: Cache-Control values of the catalogue and their directives.
\* max_age and stale_if_error are -1 when the directive is missing; unknown
\* values carry no directive.
parse_cache_control(value) ==
    CASE value = "max-age=1" ->
           [max_age |-> 1, stale_if_error |-> -1, flags |-> {}]
      [] value = "max-age=1, must-revalidate" ->
           [max_age |-> 1, stale_if_error |-> -1, flags |-> {"must-revalidate"}]
      [] value = "max-age=1, stale-if-error=5" ->
           [max_age |-> 1, stale_if_error |-> 5, flags |-> {}]
      [] value = "no-store" ->
           [max_age |-> -1, stale_if_error |-> -1, flags |-> {"no-store"}]
      [] value = "no-cache" ->
           [max_age |-> -1, stale_if_error |-> -1, flags |-> {"no-cache"}]
      [] value = "only-if-cached" ->
           [max_age |-> -1, stale_if_error |-> -1, flags |-> {"only-if-cached"}]
      [] OTHER ->
           [max_age |-> -1, stale_if_error |-> -1, flags |-> {}]

cache_control(headers) ==
    parse_cache_control(extract_header_value(headers, "cache-control"))

\* HeaderParser: the Date values of the catalogue, as clock readings.
parse_date(value) ==
    CASE value = "T0" -> 0
      [] value = "T1" -> 1
      [] OTHER -> -1

\* Hop-by-hop headers (Connection, Keep-Alive, Proxy-*, TE, Trailer,
\* Transfer-Encoding, Upgrade).
HopByHopHeaders ==
    {"connection", "keep-alive", "proxy-authenticate", "proxy-authorization",
     "te", "trailer", "transfer-encoding", "upgrade"}

----------------------------------------------------------------------------
(* Requests and responses.                                                 *)

Request(method, url, headers, content, cache_disabled) ==
    [method |-> method, url |-> url, headers |-> headers,
     content |-> content, cache_disabled |-> cache_disabled]

Response(status, headers, content) ==
    [status |-> status, headers |-> headers, content |-> content]

NoResponse == Response(0, NoHeaders, "")

\* The requests a client issues (all to https://www.example.com).
GetPlain      == Request("GET", "www.example.com", NoHeaders, "", FALSE)
GetOnlyIfCached ==
    Request("GET", "www.example.com", "cache-control" :> "only-if-cached", "", FALSE)
GetNoCache    ==
    Request("GET", "www.example.com", "cache-control" :> "no-cache", "", FALSE)
GetNoStore    ==
    Request("GET", "www.example.com", "cache-control" :> "no-store", "", FALSE)
GetCacheDisabled == Request("GET", "www.example.com", NoHeaders, "", TRUE)
GetAccept     == Request("GET", "www.example.com", "accept" :> "json", "", FALSE)

\* The POST requests of test_transport_caching_post_method: one URL, the
\* bodies json={"request": 1} and json={"request": 2}.
PostFirst  == Request("POST", "www.example.com", NoHeaders, "request 1", FALSE)
PostSecond == Request("POST", "www.example.com", NoHeaders, "request 2", FALSE)

Requests ==
    {GetPlain, GetOnlyIfCached, GetNoCache, GetNoStore, GetCacheDisabled, GetAccept}

\* The answers the origin (the mocked transport) gives.
Moved301 == Response(301, "location" :> "https://example.com", "")
Ok200 ==
    Response(200, ("cache-control" :> "max-age=1") @@ ("date" :> "T0")
                  @@ ("vary" :> "accept"), "test")
Ok200ETag ==
    Response(200, ("cache-control" :> "max-age=1") @@ ("date" :> "T0")
                  @@ ("etag" :> "v1") @@ ("content-length" :> "4"), "test")
Ok200StaleIfError ==
    Response(200, ("cache-control" :> "max-age=1, stale-if-error=5")
                  @@ ("date" :> "T1") @@ ("etag" :> "v2"), "new")
Ok200MustRevalidate ==
    Response(200, ("cache-control" :> "max-age=1, must-revalidate")
                  @@ ("date" :> "T0"), "test")
Ok200NoStore ==
    Response(200, ("cache-control" :> "no-store") @@ ("date" :> "T0"), "test")
Created201 == Response(201, NoHeaders, "")
NotModified304 ==
    Response(304, ("cache-control" :> "max-age=1") @@ ("date" :> "T1")
                  @@ ("content-type" :> "application/json")
                  @@ ("content-length" :> "0") @@ ("connection" :> "close"), "")

OriginResponses ==
    {Moved301, Ok200, Ok200ETag, Ok200StaleIfError, Ok200MustRevalidate,
     Ok200NoStore, Created201, NotModified304}

\* What one dispatch to the underlying transport yields: a response, or a
\* ConnectError.
Answer(response) == [kind |-> "response", response |-> response]
ConnectError == [kind |-> "connect_error", response |-> NoResponse]
Outcomes == {Answer(r) : r \in OriginResponses} \cup {ConnectError}

----------------------------------------------------------------------------
(* Metadata and stored entries.                                            *)

Metadata(cache_key, created_at, number_of_uses) ==
    [cache_key |-> cache_key, created_at |-> created_at,
     number_of_uses |-> number_of_uses]

\* CacheTransport stores (response, request) and keeps no metadata.
NoMetadata == Metadata(<<>>, -1, -1)

StoredResponse(response, request, metadata) ==
    [response |-> response, request |-> request, metadata |-> metadata]

NoRequest == Request("", "", NoHeaders, "", FALSE)

----------------------------------------------------------------------------
(* KeyDeriver (section 4.1): method, URL and, for the methods whose body   *)
(* is significant, the body.                                               *)

BodySignificantMethods == {"POST", "PATCH", "PUT"}

generate_key(request) ==
    <<request.method, request.url,
      IF request.method \in BodySignificantMethods THEN request.content ELSE "">>

----------------------------------------------------------------------------
(* Controller (section 4.3), with the default configuration except for     *)
(* allow_stale and cacheable_methods.                                      *)

CacheableMethods == {"GET", "HEAD"}
CacheableStatusCodes == {200, 203, 204, 206, 300, 301, 308, 404, 405, 410, 414, 501}

\* What construct_response_from_cache returns: a Response, a Request or a miss.
Serve(response)   == [kind |-> "response", response |-> response, request |-> NoRequest]
Validate(request) == [kind |-> "request", response |-> NoResponse, request |-> request]
Miss              == [kind |-> "miss", response |-> NoResponse, request |-> NoRequest]

has_validator(response) ==
    \/ extract_header_value(response.headers, "etag") # ""
    \/ extract_header_value(response.headers, "last-modified") # ""

\* Step 1.  original_requests is <<>> when the caller passes no
\* original_request (CacheTransport), and then only "Vary: *" can be judged.
vary_matches(request, response, original_requests) ==
    LET vary == extract_header_value(response.headers, "vary") IN
    IF vary = "" THEN TRUE
    ELSE IF vary = "*" THEN FALSE
    ELSE IF original_requests = <<>> THEN TRUE
    ELSE extract_header_value(request.headers, vary)
           = extract_header_value(original_requests[1].headers, vary)

\* Steps 4 and 5: age < freshness_lifetime, the age taken from the stored Date
\* header.  A stored 301 is reusable without a freshness directive
\* (src/tests/_sync/test_transport.py, test_transport_301).
is_fresh(response) ==
    LET date     == extract_header_value(response.headers, "date")
        max_age  == cache_control(response.headers).max_age
        lifetime == IF max_age >= 0 THEN max_age ELSE 0
    IN \/ response.status = 301
       \/ date # "" /\ now - parse_date(date) < lifetime

\* Step 6: the conditional request cloned from the new request.
make_request_conditional(request, response) ==
    LET etag == extract_header_value(response.headers, "etag")
        last_modified == extract_header_value(response.headers, "last-modified")
        if_none_match == IF etag # "" THEN "if-none-match" :> etag ELSE NoHeaders
        if_modified_since ==
            IF last_modified # "" THEN "if-modified-since" :> last_modified
            ELSE NoHeaders
    IN [request EXCEPT !.headers = if_none_match @@ if_modified_since @@ @]

construct_response_from_cache(request, response, original_requests) ==
    LET directives == cache_control(request.headers).flags IN
    IF ~vary_matches(request, response, original_requests) THEN Miss
    ELSE IF "no-store" \in directives \/ request.cache_disabled THEN Miss
    ELSE IF "no-cache" \notin directives /\ is_fresh(response) THEN Serve(response)
    ELSE IF has_validator(response)
         THEN Validate(make_request_conditional(request, response))
    ELSE IF ~allow_stale THEN Miss
    ELSE Validate(request)

\* The end-to-end headers of a 304 replace or extend the stored ones; hop-by-hop
\* headers are never copied and the stored Content-Length is kept.
get_updated_headers(stored_headers, new_headers) ==
    LET copied == {n \in DOMAIN new_headers :
                     n \notin HopByHopHeaders /\ n # "content-length"}
    IN [n \in DOMAIN stored_headers \cup copied |->
          IF n \in copied THEN new_headers[n] ELSE stored_headers[n]]

handle_validation_response(old_response, new_response) ==
    IF new_response.status = 304
    THEN Response(old_response.status,
                  get_updated_headers(old_response.headers, new_response.headers),
                  old_response.content)
    ELSE new_response

is_cachable(request, response) ==
    LET rq == cache_control(request.headers)
        rs == cache_control(response.headers)
    IN /\ request.method \in cacheable_methods
       /\ response.status \in CacheableStatusCodes
       /\ "no-store" \notin rq.flags
       /\ "no-store" \notin rs.flags
       /\ extract_header_value(response.headers, "vary") # "*"
       /\ \/ rs.max_age >= 0
          \/ extract_header_value(response.headers, "expires") # ""
          \/ has_validator(response)
          \/ response.status = 301

allowed_stale(response) ==
    LET cc == cache_control(response.headers) IN
    /\ "must-revalidate" \notin cc.flags
    /\ "proxy-revalidate" \notin cc.flags
    /\ (cc.stale_if_error > 0 \/ allow_stale)

----------------------------------------------------------------------------
(* The storage the wrappers use, by its contract: store admits or replaces *)
(* the entry of a key, retrieve returns it.                                *)

\* <<entry>> when the key is stored, <<>> when it is not.
retrieve(key) ==
    IF key \in DOMAIN storage THEN <<storage[key]>> ELSE <<>>

store(key, response, request, metadata) ==
    storage' = [k \in DOMAIN storage \cup {key} |->
                  IF k = key THEN StoredResponse(response, request, metadata)
                  ELSE storage[k]]

----------------------------------------------------------------------------
(* The record of one handle_request call.                                  *)
(*   request     the request given to handle_request                       *)
(*   retrieved   the result of the call's retrieve: <<>> or <<entry>>      *)
(*   decision    what construct_response_from_cache returned: "response",  *)
(*               "request" or "miss" ("absent" when nothing was stored     *)
(*               and the controller was not asked)                         *)
(*   path        the branch taken: "hit", "revalidated", "stale",          *)
(*               "passthrough" or "raised"                                 *)
(*   sent        the requests handed to the underlying transport, in order *)
(*   answers     what the underlying transport gave for them               *)
(*   admitted    the entries the call gave to store, in order              *)
(*   raised      whether the call ended by propagating an error            *)
(*   response    the response returned (NoResponse when raised)            *)
(*   from_cache  extensions["from_cache"] of the returned response         *)

NoCall ==
    [request |-> NoRequest, retrieved |-> <<>>, decision |-> "none",
     path |-> "none", sent |-> <<>>, answers |-> <<>>, admitted |-> <<>>,
     raised |-> FALSE, response |-> NoResponse, from_cache |-> FALSE,
     steps |-> <<>>, storage_error |-> "none", cache_metadata |-> <<>>]

\* CacheTransport over an empty storage, before its first call.
NoTwin == [storage |-> <<>>, call |-> NoCall]

Decision(retrieved, res) ==
    IF retrieved = <<>> THEN "absent" ELSE res.kind

Returned(request, retrieved, res, path, sent, answers, admitted, response, from_cache) ==
    [request |-> request, retrieved |-> retrieved,
     decision |-> Decision(retrieved, res), path |-> path, sent |-> sent,
     answers |-> answers, admitted |-> admitted, raised |-> FALSE,
     response |-> response, from_cache |-> from_cache,
     steps |-> IF admitted = <<>> THEN <<>> ELSE <<"store">>,
     storage_error |-> "none", cache_metadata |-> <<>>]

Raised(request, retrieved, res, sent, answers) ==
    [request |-> request, retrieved |-> retrieved,
     decision |-> Decision(retrieved, res), path |-> "raised", sent |-> sent,
     answers |-> answers, admitted |-> <<>>, raised |-> TRUE,
     response |-> NoResponse, from_cache |-> FALSE, steps |-> <<>>,
     storage_error |-> "none", cache_metadata |-> <<>>]

\* The call has called response.read() on the response it goes on to store
\* or return: the body is read to the end before what follows.
BodyRead(returned) == [returned EXCEPT !.steps = <<"read">> \o @]

----------------------------------------------------------------------------
(* CacheConnectionPool.handle_request (_sync/_pool.py).                    *)

\* PoolServeFromCache without line 59: the response is returned unmarked.
PoolServeFromCache_Unmarked(key, request, stored, res) ==
    LET metadata == [stored.metadata EXCEPT !.number_of_uses = @ + 1] IN
    /\ stored.metadata.number_of_uses < MaxUses
    /\ store(key, stored.response, request, metadata)
    /\ call' = BodyRead(Returned(request, <<stored>>, res, "hit", <<>>, <<>>,
                        <<StoredResponse(stored.response, request, metadata)>>,
                        res.response, FALSE))

\* Lines 49-60: the controller returned a Response.
PoolServeFromCache(key, request, stored, res) ==
    LET metadata == [stored.metadata EXCEPT !.number_of_uses = @ + 1] IN
    /\ stored.metadata.number_of_uses < MaxUses
    /\ store(key, stored.response, request, metadata)
    /\ call' = BodyRead(Returned(request, <<stored>>, res, "hit", <<>>, <<>>,
                        <<StoredResponse(stored.response, request, metadata)>>,
                        res.response, TRUE))

\* PoolConnectError with line 68 testing allow_stale alone, the stored
\* response's directives ignored.
PoolConnectError_IgnoresDirectives(request, stored, res) ==
    /\ UNCHANGED storage
    /\ call' = IF allow_stale
               THEN Returned(request, <<stored>>, res, "stale",
                             <<res.request>>, <<ConnectError>>, <<>>,
                             stored.response, TRUE)
               ELSE Raised(request, <<stored>>, res, <<res.request>>,
                           <<ConnectError>>)

\* PoolConnectError re-storing the stored response for the failed request,
\* as lines 53-58 do on a hit.
PoolConnectError_Restores(request, stored, res) ==
    /\ store(generate_key(request), stored.response, request, stored.metadata)
    /\ call' = IF allow_stale /\ allowed_stale(stored.response)
               THEN Returned(request, <<stored>>, res, "stale",
                             <<res.request>>, <<ConnectError>>, <<>>,
                             stored.response, TRUE)
               ELSE Raised(request, <<stored>>, res, <<res.request>>,
                           <<ConnectError>>)

\* Lines 67-73: the revalidation request raised ConnectError.
PoolConnectError(request, stored, res) ==
    /\ UNCHANGED storage
    /\ call' = IF allow_stale /\ allowed_stale(stored.response)
               THEN Returned(request, <<stored>>, res, "stale",
                             <<res.request>>, <<ConnectError>>, <<>>,
                             stored.response, TRUE)
               ELSE Raised(request, <<stored>>, res, <<res.request>>,
                           <<ConnectError>>)

\* PoolRevalidated returning the origin's answer itself instead of the merged
\* response (line 75 skipped).
PoolRevalidated_ReturnsNew(key, request, stored, res, response) ==
    LET metadata ==
            [stored.metadata EXCEPT
               !.number_of_uses = @ + (IF response.status = 304 THEN 1 ELSE 0)]
    IN /\ metadata.number_of_uses <= MaxUses
       /\ store(key, response, request, metadata)
       /\ call' = BodyRead(Returned(request, <<stored>>, res, "revalidated",
                           <<res.request>>, <<Answer(response)>>,
                           <<StoredResponse(response, request, metadata)>>,
                           response, response.status = 304))

\* PoolRevalidated storing the merged response as a new admission: with
\* the metadata of lines 91-93 instead of the stored metadata.
PoolRevalidated_Readmits(key, request, stored, res, response) ==
    LET full_response ==
            handle_validation_response(stored.response, response)
        metadata == Metadata(key, now, stored.metadata.number_of_uses
                                 + (IF response.status = 304 THEN 1 ELSE 0))
    IN /\ metadata.number_of_uses <= MaxUses
       /\ store(key, full_response, request, metadata)
       /\ call' = BodyRead(Returned(request, <<stored>>, res, "revalidated",
                           <<res.request>>, <<Answer(response)>>,
                           <<StoredResponse(full_response, request, metadata)>>,
                           full_response, response.status = 304))

\* PoolRevalidated sending the request again, unconditionally, after an
\* answer other than 304.
PoolRevalidated_Refetches(key, request, stored, res, response) ==
    LET full_response ==
            handle_validation_response(stored.response, response)
        metadata ==
            [stored.metadata EXCEPT
               !.number_of_uses = @ + (IF response.status = 304 THEN 1 ELSE 0)]
    IN /\ metadata.number_of_uses <= MaxUses
       /\ store(key, full_response, request, metadata)
       /\ call' = BodyRead(Returned(request, <<stored>>, res, "revalidated",
                           IF response.status = 304 THEN <<res.request>>
                           ELSE <<res.request, request>>,
                           IF response.status = 304 THEN <<Answer(response)>>
                           ELSE <<Answer(response), Answer(response)>>,
                           <<StoredResponse(full_response, request, metadata)>>,
                           full_response, response.status = 304))

\* Lines 74-85: the revalidation request was answered.
PoolRevalidated(key, request, stored, res, response) ==
    LET full_response ==
            handle_validation_response(stored.response, response)
        metadata ==
            [stored.metadata EXCEPT
               !.number_of_uses = @ + (IF response.status = 304 THEN 1 ELSE 0)]
    IN /\ metadata.number_of_uses <= MaxUses
       /\ store(key, full_response, request, metadata)
       /\ call' = BodyRead(Returned(request, <<stored>>, res, "revalidated",
                           <<res.request>>, <<Answer(response)>>,
                           <<StoredResponse(full_response, request, metadata)>>,
                           full_response, response.status = 304))

\* PoolPassThrough storing every answer (the is_cachable test of line 89
\* missing).
PoolPassThrough_StoresAll(key, request, retrieved, res, outcome) ==
    IF outcome.kind = "connect_error"
    THEN /\ UNCHANGED storage
         /\ call' = Raised(request, retrieved, res, <<request>>, <<outcome>>)
    ELSE LET response == outcome.response
             metadata == Metadata(key, now, 0)
         IN /\ store(key, response, request, metadata)
            /\ call' = BodyRead(Returned(request, retrieved, res, "passthrough",
                                <<request>>, <<outcome>>,
                                <<StoredResponse(response, request, metadata)>>,
                                response, FALSE))

\* Lines 87-99: no stored entry, or the controller returned neither a Response
\* nor a Request.
PoolPassThrough(key, request, retrieved, res, outcome) ==
    IF outcome.kind = "connect_error"
    THEN /\ UNCHANGED storage
         /\ call' = Raised(request, retrieved, res, <<request>>, <<outcome>>)
    ELSE LET response == outcome.response
             metadata == Metadata(key, now, 0)
         IN IF is_cachable(request, response)
            THEN /\ store(key, response, request, metadata)
                 /\ call' = BodyRead(Returned(request, retrieved, res, "passthrough",
                                     <<request>>, <<outcome>>,
                                     <<StoredResponse(response, request, metadata)>>,
                                     response, FALSE))
            ELSE /\ UNCHANGED storage
                 /\ call' = Returned(request, retrieved, res, "passthrough",
                                     <<request>>, <<outcome>>, <<>>,
                                     response, FALSE)

\* Lines 34-99.  outcome is what the underlying pool does with the one request
\* the call may hand it.
PoolHandleRequest(request, outcome) ==
    /\ wrapper = "pool"
    /\ LET key == generate_key(request)
           stored_data == retrieve(key)
       IN IF stored_data # <<>>
          THEN LET stored == stored_data[1]
                   res == construct_response_from_cache(
                              request, stored.response, <<stored.request>>)
               IN IF res.kind = "response"
                  THEN PoolServeFromCache(key, request, stored, res)
                  ELSE IF res.kind = "request"
                  THEN IF outcome.kind = "connect_error"
                       THEN PoolConnectError(request, stored, res)
                       ELSE PoolRevalidated(key, request, stored, res,
                                            outcome.response)
                  ELSE PoolPassThrough(key, request, stored_data, res, outcome)
          ELSE PoolPassThrough(key, request, stored_data, Miss, outcome)
    /\ UNCHANGED <<now, allow_stale, cacheable_methods, wrapper,
                 backendVars, auxVars>>

----------------------------------------------------------------------------
(* CacheTransport.handle_request (_sync/_transports.py).                   *)

\* httpcore_request without content=request.stream (line 50): the request
\* the key is derived from has no body.
httpcore_request_NoContent(request) ==
    Request(request.method, request.url, request.headers, "",
            request.cache_disabled)

\* Lines 41-52: the httpcore request built from the httpx request.
httpcore_request(request) ==
    Request(request.method, request.url, request.headers, request.content,
            request.cache_disabled)

\* Lines 77-82: the httpx request built from the controller's request; the
\* extensions are not passed on.
revalidation_request(res) ==
    Request(res.request.method, res.request.url, res.request.headers,
            res.request.content, FALSE)

\* Lines 63-72: the controller returned a Response.
TransportServeFromCache(request, stored, res) ==
    /\ UNCHANGED storage
    /\ call' = Returned(request, <<stored>>, res, "hit", <<>>, <<>>, <<>>,
                        res.response, TRUE)

\* TransportRevalidate marking every revalidated response from_cache = true
\* (lines 105-107 not looking at the status).
TransportRevalidate_AlwaysFromCache(key, request, stored, res, outcome) ==
    IF outcome.kind = "connect_error"
    THEN /\ UNCHANGED storage
         /\ call' = Raised(request, <<stored>>, res,
                           <<revalidation_request(res)>>, <<outcome>>)
    ELSE LET full_response ==
                 handle_validation_response(stored.response, outcome.response)
         IN /\ store(key, full_response, httpcore_request(request), NoMetadata)
            /\ call' = BodyRead(Returned(request, <<stored>>, res, "revalidated",
                                <<revalidation_request(res)>>, <<outcome>>,
                                <<StoredResponse(full_response,
                                                 httpcore_request(request),
                                                 NoMetadata)>>,
                                full_response, TRUE))

\* TransportRevalidate with the store of lines 100-102 made for a 304 only:
\* after any other answer the entry is left as it was.
TransportRevalidate_StoresOn304(key, request, stored, res, outcome) ==
    IF outcome.kind = "connect_error"
    THEN /\ UNCHANGED storage
         /\ call' = Raised(request, <<stored>>, res,
                           <<revalidation_request(res)>>, <<outcome>>)
    ELSE LET full_response ==
                 handle_validation_response(stored.response, outcome.response)
         IN /\ IF outcome.response.status = 304
               THEN store(key, full_response, httpcore_request(request),
                          NoMetadata)
               ELSE UNCHANGED storage
            /\ call' = BodyRead(Returned(request, <<stored>>, res, "revalidated",
                                <<revalidation_request(res)>>, <<outcome>>,
                                <<StoredResponse(full_response,
                                                 httpcore_request(request),
                                                 NoMetadata)>>,
                                full_response, outcome.response.status = 304))

\* Lines 74-113: the controller returned a Request.  Nothing catches an error
\* of the underlying transport.
TransportRevalidate(key, request, stored, res, outcome) ==
    IF outcome.kind = "connect_error"
    THEN /\ UNCHANGED storage
         /\ call' = Raised(request, <<stored>>, res,
                           <<revalidation_request(res)>>, <<outcome>>)
    ELSE LET full_response ==
                 handle_validation_response(stored.response, outcome.response)
         IN /\ store(key, full_response, httpcore_request(request), NoMetadata)
            /\ call' = BodyRead(Returned(request, <<stored>>, res, "revalidated",
                                <<revalidation_request(res)>>, <<outcome>>,
                                <<StoredResponse(full_response,
                                                 httpcore_request(request),
                                                 NoMetadata)>>,
                                full_response, outcome.response.status = 304))

\* TransportPassThrough without line 123: the answer is tested and stored
\* with its body still on the stream.
TransportPassThrough_Unread(key, request, retrieved, res, outcome) ==
    IF outcome.kind = "connect_error"
    THEN /\ UNCHANGED storage
         /\ call' = Raised(request, retrieved, res, <<request>>, <<outcome>>)
    ELSE LET response == outcome.response IN
         IF is_cachable(httpcore_request(request), response)
         THEN /\ store(key, response, httpcore_request(request), NoMetadata)
              /\ call' = Returned(request, retrieved, res, "passthrough",
                                  <<request>>, <<outcome>>,
                                  <<StoredResponse(response,
                                                   httpcore_request(request),
                                                   NoMetadata)>>,
                                  response, FALSE)
         ELSE /\ UNCHANGED storage
              /\ call' = Returned(request, retrieved, res, "passthrough",
                                  <<request>>, <<outcome>>, <<>>,
                                  response, FALSE)

\* Lines 115-138.
TransportPassThrough(key, request, retrieved, res, outcome) ==
    IF outcome.kind = "connect_error"
    THEN /\ UNCHANGED storage
         /\ call' = Raised(request, retrieved, res, <<request>>, <<outcome>>)
    ELSE LET response == outcome.response IN
         IF is_cachable(httpcore_request(request), response)
         THEN /\ store(key, response, httpcore_request(request), NoMetadata)
              /\ call' = BodyRead(Returned(request, retrieved, res, "passthrough",
                                  <<request>>, <<outcome>>,
                                  <<StoredResponse(response,
                                                   httpcore_request(request),
                                                   NoMetadata)>>,
                                  response, FALSE))
         ELSE /\ UNCHANGED storage
              /\ call' = BodyRead(Returned(request, retrieved, res, "passthrough",
                                  <<request>>, <<outcome>>, <<>>,
                                  response, FALSE))

\* Lines 40-138.
TransportHandleRequest(request, outcome) ==
    /\ wrapper = "transport"
    /\ LET key == generate_key(httpcore_request(request))
           stored_data == retrieve(key)
       IN IF stored_data # <<>>
          THEN LET stored == stored_data[1]
                   res == construct_response_from_cache(
                              httpcore_request(request), stored.response, <<>>)
               IN IF res.kind = "response"
                  THEN TransportServeFromCache(request, stored, res)
                  ELSE IF res.kind = "request"
                  THEN TransportRevalidate(key, request, stored, res, outcome)
                  ELSE TransportPassThrough(key, request, stored_data, res, outcome)
          ELSE TransportPassThrough(key, request, stored_data, Miss, outcome)
    /\ UNCHANGED <<now, allow_stale, cacheable_methods, wrapper,
                 backendVars, auxVars>>

----------------------------------------------------------------------------
(* handle_request over a storage backend whose retrieve or store raises    *)
(* (an I/O failure).  Neither wrapper has a handler around its storage     *)
(* calls, so the exception leaves handle_request at the call that raised.  *)

StorageFaults == {"retrieve", "store"}

\* The exception of the storage leaves the call: what the call had done up
\* to the storage call that raised is kept in the record.
StorageRaised(request, retrieved, res, sent, answers, fault) ==
    [Raised(request, retrieved, res, sent, answers) EXCEPT
        !.storage_error = fault,
        !.steps = IF fault = "store" THEN <<"read", "store">> ELSE <<>>]

\* PoolStorageError with the store of lines 94-96 inside a handler that
\* drops the exception: the answer is returned as after an admission.
PoolStorageError_Swallowed(request, outcome, fault) ==
    /\ wrapper = "pool"
    /\ LET key == generate_key(request)
           stored_data == retrieve(key)
           res == IF stored_data = <<>> THEN Miss
                  ELSE construct_response_from_cache(
                           request, stored_data[1].response,
                           <<stored_data[1].request>>)
       IN IF fault = "retrieve"
          THEN call' = StorageRaised(request, <<>>, Miss, <<>>, <<>>, fault)
          ELSE IF res.kind = "response"
          THEN call' = StorageRaised(request, stored_data, res, <<>>, <<>>,
                                     fault)
          ELSE /\ outcome.kind = "response"
               /\ IF res.kind = "request"
                  THEN call' = StorageRaised(request, stored_data, res,
                                             <<res.request>>, <<outcome>>,
                                             fault)
                  ELSE /\ is_cachable(request, outcome.response)
                       /\ call' = [BodyRead(Returned(
                                        request, stored_data, res,
                                        "passthrough", <<request>>,
                                        <<outcome>>, <<>>, outcome.response,
                                        FALSE))
                                    EXCEPT !.storage_error = fault]
    /\ UNCHANGED <<storage, now, allow_stale, cacheable_methods, wrapper,
                 backendVars, auxVars>>

\* _pool.py 34-99 when retreive (line 36) or the store the call reaches
\* (lines 53, 81, 94) raises.
PoolStorageError(request, outcome, fault) ==
    /\ wrapper = "pool"
    /\ LET key == generate_key(request)
           stored_data == retrieve(key)
           res == IF stored_data = <<>> THEN Miss
                  ELSE construct_response_from_cache(
                           request, stored_data[1].response,
                           <<stored_data[1].request>>)
       IN IF fault = "retrieve"
          THEN call' = StorageRaised(request, <<>>, Miss, <<>>, <<>>, fault)
          ELSE IF res.kind = "response"
          THEN call' = StorageRaised(request, stored_data, res, <<>>, <<>>,
                                     fault)
          ELSE /\ outcome.kind = "response"
               /\ IF res.kind = "request"
                  THEN call' = StorageRaised(request, stored_data, res,
                                             <<res.request>>, <<outcome>>,
                                             fault)
                  ELSE /\ is_cachable(request, outcome.response)
                       /\ call' = StorageRaised(request, stored_data, res,
                                                <<request>>, <<outcome>>,
                                                fault)
    /\ UNCHANGED <<storage, now, allow_stale, cacheable_methods, wrapper,
                 backendVars, auxVars>>

\* _transports.py 40-138 when retreive (line 54) or the store the call
\* reaches (lines 100, 128) raises; a hit stores nothing.
TransportStorageError(request, outcome, fault) ==
    /\ wrapper = "transport"
    /\ LET key == generate_key(httpcore_request(request))
           stored_data == retrieve(key)
           res == IF stored_data = <<>> THEN Miss
                  ELSE construct_response_from_cache(
                           httpcore_request(request),
                           stored_data[1].response, <<>>)
       IN IF fault = "retrieve"
          THEN call' = StorageRaised(request, <<>>, Miss, <<>>, <<>>, fault)
          ELSE /\ res.kind # "response"
               /\ outcome.kind = "response"
               /\ IF res.kind = "request"
                  THEN call' = StorageRaised(request, stored_data, res,
                                             <<revalidation_request(res)>>,
                                             <<outcome>>, fault)
                  ELSE /\ is_cachable(httpcore_request(request),
                                      outcome.response)
                       /\ call' = StorageRaised(request, stored_data, res,
                                                <<request>>, <<outcome>>,
                                                fault)
    /\ UNCHANGED <<storage, now, allow_stale, cacheable_methods, wrapper,
                 backendVars, auxVars>>

----------------------------------------------------------------------------
(* handle_request of a wrapper constructed over a storage of the other     *)
(* concurrency model (AsyncFileStorage): __init__ keeps whatever storage   *)
(* it is given, and retreive of such a storage returns a coroutine, which  *)
(* the unpacking of the stored data rejects with a TypeError.              *)

AsyncStorages == {"async_file"}

WrongStorageRaised(request) ==
    [Raised(request, <<>>, Miss, <<>>, <<>>) EXCEPT !.storage_error = "coroutine"]

\* _pool.py 35-41.
PoolWrongStorage(request) ==
    /\ wrapper = "pool"
    /\ backend \in AsyncStorages
    /\ call' = WrongStorageRaised(request)
    /\ UNCHANGED <<storage, now, allow_stale, cacheable_methods, wrapper,
                   backendVars, auxVars>>

\* _transports.py 41-54.
TransportWrongStorage(request) ==
    /\ wrapper = "transport"
    /\ backend \in AsyncStorages
    /\ call' = WrongStorageRaised(request)
    /\ UNCHANGED <<storage, now, allow_stale, cacheable_methods, wrapper,
                   backendVars, auxVars>>

----------------------------------------------------------------------------
(* The serializers, as the serializer tests call them and as the documents *)
(* of those tests show their output (tests/test_serializers.py).           *)

Serializers == {"PickleSerializer", "JSONSerializer", "YAMLSerializer"}

\* A header list: name and value pairs, in order, duplicates allowed.
HeaderLists ==
    {<<>>,
     <<<<"Content-Type", "application/json">>, <<"Transfer-Encoding", "chunked">>>>,
     <<<<"Transfer-Encoding", "chunked">>, <<"Content-Type", "application/json">>>>,
     <<<<"Set-Cookie", "a">>, <<"Set-Cookie", "b">>>>}

\* normalized_url: the URL with its path, "/" when it has none.
normalized_url(url) ==
    IF url = "https://example.com" THEN "https://example.com/" ELSE url

\* httpcore.Response(status, headers, content, extensions) of the tests.
TestResponse(status, headers, content) ==
    [status |-> status, headers |-> headers, content |-> content,
     extensions |-> [reason_phrase |-> "OK", http_version |-> "HTTP/1.1"]]

\* httpcore.Request(method, url, headers, extensions) of the tests: the URL
\* is parsed on construction.
TestRequest(url, headers) ==
    [method |-> "GET", url |-> normalized_url(url), headers |-> headers,
     extensions |-> [sni_hostname |-> "example.com"]]

\* The content field of the documents: base64 of the body.
b64encode(content) ==
    IF content = "test" THEN "dGVzdA==" ELSE IF content = "" THEN "" ELSE "?"

b64decode(text) ==
    IF text = "dGVzdA==" THEN "test" ELSE IF text = "" THEN "" ELSE "?"

\* dumps(response=..., request=...): the document has a response and a
\* request section and nothing else; the pickle is opaque bytes, the JSON
\* and YAML documents are text of one structure.
SerializerDumps(serializer, response, request) ==
    [format |-> serializer,
     response |-> [status |-> response.status, headers |-> response.headers,
                   content |-> b64encode(response.content),
                   extensions |-> response.extensions],
     request |-> [method |-> request.method, url |-> normalized_url(request.url),
                  headers |-> request.headers,
                  extensions |-> request.extensions]]

\* loads(data): the pair of a response and a request.
SerializerLoads(serializer, data) ==
    <<[status |-> data.response.status, headers |-> data.response.headers,
       content |-> b64decode(data.response.content),
       extensions |-> data.response.extensions],
      [method |-> data.request.method, url |-> data.request.url,
       headers |-> data.request.headers,
       extensions |-> data.request.extensions]>>

NoCodec == [serializer |-> "none", input |-> <<>>, data |-> <<>>, loaded |-> <<>>]

\* A response, its request and its metadata are dumped, and the output is
\* loaded.
RoundTrip(serializer, response, request, metadata) ==
    /\ codec' = [serializer |-> serializer,
                 input |-> <<response, request, metadata>>,
                 data |-> <<SerializerDumps(serializer, response, request)>>,
                 loaded |-> SerializerLoads(
                                serializer,
                                SerializerDumps(serializer, response, request))]
    /\ UNCHANGED <<wrapperVars, now, backendVars, calls, admitted_at, held, twin>>

----------------------------------------------------------------------------
(* CacheConnectionPool.handle_request called by several clients at once    *)
(* (_sync/_pool.py 34-99).  A call advances in the steps between which     *)
(* another call can run: the retrieve of line 36, the dispatch of lines 66 *)
(* and 87, and the store of lines 53, 81 and 94, each with the code up to  *)
(* the next of them.  Nothing is held from the retrieve to the store.      *)

Clients == {"c1", "c2"}

NoClientCall ==
    [pc |-> "idle", request |-> NoRequest, retrieved |-> <<>>, res |-> Miss,
     answer |-> NoResponse, response |-> NoResponse, from_cache |-> FALSE,
     raised |-> FALSE]

\* of: the call of each client; started: the calls begun; latest: the
\* response of the last revalidation or pass-through admission.
NoCalls == [of |-> [c \in Clients |-> NoClientCall], started |-> 0, latest |-> <<>>]

ClientReturned(c, response, from_cache, raised) ==
    [calls.of[c] EXCEPT !.pc = "idle", !.response = response,
                        !.from_cache = from_cache, !.raised = raised]

\* Lines 35-47: the key, retreive and the controller's decision.
ClientRetrieve(c, request) ==
    /\ wrapper = "pool"
    /\ calls.of[c].pc = "idle"
    /\ calls.started < MaxOps
    /\ LET stored_data == retrieve(generate_key(request))
           res == IF stored_data = <<>> THEN Miss
                  ELSE construct_response_from_cache(
                           request, stored_data[1].response,
                           <<stored_data[1].request>>)
       IN calls' = [calls EXCEPT
                       !.started = @ + 1,
                       !.of[c] = [NoClientCall EXCEPT
                                     !.pc = "retrieved", !.request = request,
                                     !.retrieved = stored_data, !.res = res]]
    /\ UNCHANGED <<wrapperVars, now, backendVars, codec, admitted_at, held, twin>>

\* Lines 49-60: the stored response that the call retrieved is stored again
\* with number_of_uses + 1 and returned.
ClientServeFromCache(c) ==
    LET this == calls.of[c]
        stored == this.retrieved[1]
        metadata == [stored.metadata EXCEPT !.number_of_uses = @ + 1]
    IN /\ this.pc = "retrieved"
       /\ this.res.kind = "response"
       /\ stored.metadata.number_of_uses < MaxUses
       /\ store(generate_key(this.request), stored.response, this.request,
                metadata)
       /\ calls' = [calls EXCEPT
                       !.of[c] = ClientReturned(c, this.res.response, TRUE, FALSE)]
       /\ UNCHANGED <<allow_stale, cacheable_methods, wrapper, call, now,
                      backendVars, codec, admitted_at, held, twin>>

\* Lines 66-73 and 87: the dispatch of the revalidation request or of the
\* request itself; a ConnectError ends the call.
ClientDispatch(c, outcome) ==
    LET this == calls.of[c] IN
    /\ this.pc = "retrieved"
    /\ this.res.kind # "response"
    /\ calls' = [calls EXCEPT
           !.of[c] =
               IF outcome.kind = "response"
               THEN [this EXCEPT !.pc = "answered", !.answer = outcome.response]
               ELSE IF /\ this.res.kind = "request"
                       /\ allow_stale
                       /\ allowed_stale(this.retrieved[1].response)
               THEN ClientReturned(c, this.retrieved[1].response, TRUE, FALSE)
               ELSE ClientReturned(c, NoResponse, FALSE, TRUE)]
    /\ UNCHANGED <<wrapperVars, now, backendVars, codec, admitted_at, held, twin>>

\* Lines 75-85 and 89-99: the answer is merged and stored, or tested with
\* is_cachable and stored, and returned.
ClientAdmit(c) ==
    LET this == calls.of[c]
        key == generate_key(this.request)
    IN /\ this.pc = "answered"
       /\ IF this.res.kind = "request"
          THEN LET stored == this.retrieved[1]
                   full_response ==
                       handle_validation_response(stored.response, this.answer)
                   metadata ==
                       [stored.metadata EXCEPT
                          !.number_of_uses =
                              @ + (IF this.answer.status = 304 THEN 1 ELSE 0)]
               IN /\ metadata.number_of_uses <= MaxUses
                  /\ store(key, full_response, this.request, metadata)
                  /\ calls' = [calls EXCEPT
                         !.latest = <<full_response>>,
                         !.of[c] = ClientReturned(c, full_response,
                                                  this.answer.status = 304,
                                                  FALSE)]
          ELSE IF is_cachable(this.request, this.answer)
          THEN /\ store(key, this.answer, this.request, Metadata(key, now, 0))
               /\ calls' = [calls EXCEPT
                      !.latest = <<this.answer>>,
                      !.of[c] = ClientReturned(c, this.answer, FALSE, FALSE)]
          ELSE /\ UNCHANGED storage
               /\ calls' = [calls EXCEPT
                      !.of[c] = ClientReturned(c, this.answer, FALSE, FALSE)]
       /\ UNCHANGED <<allow_stale, cacheable_methods, wrapper, call, now,
                      backendVars, codec, admitted_at, held, twin>>

----------------------------------------------------------------------------
\* Time passes.
Tick ==
    /\ now < MaxTime
    /\ now' = now + 1
    /\ swept' = FALSE
    /\ UNCHANGED <<auxVars, wrapperVars, backend, ttl, capacity, files, table, cache,
                   lock, setup_completed, pc, arg, result, ops, last>>

----------------------------------------------------------------------------
(* The storage backends (_sync/_storages.py): one instance of FileStorage, *)
(* SQLiteStorage or InMemoryStorage, used by the threads of Threads.  A    *)
(* thread's store or retrieve call advances in the steps between which     *)
(* another thread can run: taking self._lock, the two halves of the write  *)
(* (open and write, DELETE and INSERT), the sweep, the read.               *)

Threads == {"t1", "t2"}

\* The second URL of the storage tests.
GetAnother == Request("GET", "anotherexample.com", NoHeaders, "", FALSE)

StorageKeys == {generate_key(GetPlain), generate_key(GetAnother)}

dummy_metadata == Metadata(<<"test">>, 0, 0)

\* The response of the storage tests, stored for either key.
test_entry == StoredResponse(Ok200ETag, GetPlain, dummy_metadata)

\* The entries the threads store.
Entries ==
    {StoredResponse(Ok200ETag, GetPlain, dummy_metadata),
     StoredResponse(Ok200StaleIfError, GetPlain, dummy_metadata)}

\* The serializer, by its round-trip contract: loads(dumps(e)) = e.  A file
\* of zero bytes is EmptyData, which no serializer can load.
EmptyData == <<>>
\* Bytes that are not the output of dumps.
CorruptData == <<"corrupt">>
dumps(entry) == <<"serialized", entry>>
CanLoad(data) == Len(data) = 2 /\ data[1] = "serialized"
loads(data) == data[2]

HasTTL == ttl # <<>>

\* What a retrieve gives: got is <<>> (None) or <<entry>>, raised tells that
\* the call ended in an exception.
Got(got, raised) == [got |-> got, raised |-> raised]

(* FileStorage. *)

\* FileManager.write_to, first half: open(path, "w") creates or truncates.
FileOpen(fs, key) ==
    [k \in DOMAIN fs \cup {key} |->
        IF k = key THEN [data |-> EmptyData, mtime |-> now] ELSE fs[k]]

\* FileManager.write_to, second half: the data is written and the file closed.
FileWrite(fs, key, entry) ==
    [k \in DOMAIN fs \cup {key} |->
        IF k = key THEN [data |-> dumps(entry), mtime |-> now] ELSE fs[k]]

\* No file is unlinked.
FileSweep_KeepsAll(fs) == fs

\* Lines 136-140.
FileSweep(fs) ==
    [k \in {f \in DOMAIN fs : ~(now - fs[f].mtime > ttl[1])} |-> fs[k]]

\* Lines 124-126.
FileRead(fs, key) ==
    IF key \in DOMAIN fs
    THEN IF CanLoad(fs[key].data)
         THEN Got(<<loads(fs[key].data)>>, FALSE)
         ELSE Got(<<>>, TRUE)
    ELSE Got(<<>>, FALSE)

(* SQLiteStorage. *)

Row(key, data, date_created) ==
    [key |-> key, data |-> data, date_created |-> date_created]

\* SelectSeq of the rows that satisfy Keep.
RECURSIVE Rows(_, _, _)
Rows(tbl, key, keep_key) ==
    IF tbl = <<>> THEN <<>>
    ELSE IF (Head(tbl).key = key) = keep_key
         THEN <<Head(tbl)>> \o Rows(Tail(tbl), key, keep_key)
         ELSE Rows(Tail(tbl), key, keep_key)

\* The rows of the key are left in the table.
SQLiteDelete_KeepsRows(tbl, key) == tbl

\* DELETE FROM cache WHERE key != ?: the rows of the other keys are deleted.
SQLiteDelete_OtherKeys(tbl, key) == Rows(tbl, key, TRUE)

\* Line 205: DELETE FROM cache WHERE key = ?
SQLiteDelete(tbl, key) == Rows(tbl, key, FALSE)

\* Lines 206-210: INSERT INTO cache(key, data, date_created), commit.
SQLiteInsert(tbl, key, entry) == Append(tbl, Row(key, dumps(entry), now))

\* The rows that have just reached the TTL are deleted as well.
RECURSIVE SQLiteSweep_AtTTL(_)
SQLiteSweep_AtTTL(tbl) ==
    IF tbl = <<>> THEN <<>>
    ELSE IF Head(tbl).date_created + ttl[1] <= now
         THEN SQLiteSweep_AtTTL(Tail(tbl))
         ELSE <<Head(tbl)>> \o SQLiteSweep_AtTTL(Tail(tbl))

\* Lines 246-247: DELETE FROM cache WHERE date_created + ? < ?
RECURSIVE SQLiteSweep(_)
SQLiteSweep(tbl) ==
    IF tbl = <<>> THEN <<>>
    ELSE IF Head(tbl).date_created + ttl[1] < now
         THEN SQLiteSweep(Tail(tbl))
         ELSE <<Head(tbl)>> \o SQLiteSweep(Tail(tbl))

\* Lines 228-234: SELECT data FROM cache WHERE key = ?, fetchone.
SQLiteSelect(tbl, key) ==
    LET rows == Rows(tbl, key, TRUE) IN
    IF rows = <<>> THEN Got(<<>>, FALSE)
    ELSE IF CanLoad(rows[1].data)
         THEN Got(<<loads(rows[1].data)>>, FALSE)
         ELSE Got(<<>>, TRUE)

(* InMemoryStorage and its LFUCache (section 4.8).  The cache is the       *)
(* sequence of its items, least recently used first; an item is a key, the *)
(* value stored for it, the time it was stored and its frequency.          *)

Item(key, value, time, freq) ==
    [key |-> key, value |-> value, time |-> time, freq |-> freq]

LFUKeys(c) == {c[i].key : i \in 1..Len(c)}

LFUIndex(c, key) == CHOOSE i \in 1..Len(c) : c[i].key = key

LFURemoveAt(c, i) == SubSeq(c, 1, i - 1) \o SubSeq(c, i + 1, Len(c))

\* The least-frequently-used item, the least recently used of them on a tie.
LFUVictim(c) ==
    CHOOSE i \in 1..Len(c) :
        /\ \A j \in 1..Len(c) : c[i].freq <= c[j].freq
        /\ \A j \in 1..(i - 1) : c[j].freq > c[i].freq

\* The key that LFUCache.put(key, ...) evicts: <<>> when it evicts none.
LFUEvicted(c, key) ==
    IF key \notin LFUKeys(c) /\ Len(c) >= capacity /\ Len(c) > 0
    THEN <<c[LFUVictim(c)].key>>
    ELSE <<>>

\* LFUCache.put.
LFUPut(c, key, value, time) ==
    IF key \in LFUKeys(c)
    THEN LET i == LFUIndex(c, key) IN
         Append(LFURemoveAt(c, i), Item(key, value, time, c[i].freq))
    ELSE LET kept == IF LFUEvicted(c, key) # <<>>
                     THEN LFURemoveAt(c, LFUVictim(c)) ELSE c
         IN Append(kept, Item(key, value, time, 1))

\* LFUCache.get: the item is used once more.
LFUTouch(c, key) ==
    LET i == LFUIndex(c, key) IN
    Append(LFURemoveAt(c, i), [c[i] EXCEPT !.freq = @ + 1])

\* MemoryPut into a cache without a capacity: nothing is evicted.
MemoryPut_Unbounded(c, key, entry) ==
    IF key \in LFUKeys(c)
    THEN LFUPut(c, key, entry, now)
    ELSE Append(c, Item(key, entry, now, 1))

\* Lines 369-372.
MemoryPut(c, key, entry) == LFUPut(c, key, entry, now)

\* Lines 401-410: every key is looked up with get, the expired ones are
\* removed.
RECURSIVE MemorySweep(_)
MemorySweep(c) ==
    IF c = <<>> THEN <<>>
    ELSE IF now - Head(c).time > ttl[1]
         THEN MemorySweep(Tail(c))
         ELSE <<[Head(c) EXCEPT !.freq = @ + 1]>> \o MemorySweep(Tail(c))

\* Lines 387-391.
MemoryGet(c, key) ==
    IF key \in LFUKeys(c)
    THEN Got(<<c[LFUIndex(c, key)].value>>, FALSE)
    ELSE Got(<<>>, FALSE)

MemoryAfterGet(c, key) ==
    IF key \in LFUKeys(c) THEN LFUTouch(c, key) ELSE c

(* The last store of each key to take effect: its entry (<<>> before the   *)
(* first), the time of its write, whether LFUCache.put has evicted the key *)
(* since, and the entries that the earlier stores of the key were given.   *)

LastStore(entry, time, evicted, earlier) ==
    [entry |-> entry, time |-> time, evicted |-> evicted, earlier |-> earlier]

NoStore == LastStore(<<>>, 0, FALSE, {})

\* The last entry of key is within its TTL (or no TTL is configured).
Live(key) == ~HasTTL \/ now - last[key].time <= ttl[1]

\* Another thread's store of key has been called and has not returned.
StoreInProgress(t, key) ==
    \E u \in Threads \ {t} :
        /\ pc[u] \in {"store_lock", "store_write", "store_sweep", "store_sweeping"}
        /\ arg[u].key = key

\* The bytes that the read of retrieve(key) finds: <<>> when there is no
\* file or row (InMemoryStorage keeps no bytes).
Payload(key) ==
    IF backend = "file"
    THEN IF key \in DOMAIN files THEN <<files[key].data>> ELSE <<>>
    ELSE IF backend = "sqlite"
    THEN LET rows == Rows(table, key, TRUE) IN
         IF rows = <<>> THEN <<>> ELSE <<rows[1].data>>
    ELSE <<>>

(* What a thread's last retrieve returned, with what held when it read:    *)
(* expected is the entry of the last store of the key to take effect.      *)
NoResult ==
    [key |-> <<>>, got |-> <<>>, raised |-> FALSE, data |-> <<>>,
     expected |-> <<>>, earlier |-> {}, live |-> TRUE, evicted |-> FALSE,
     overlapped |-> FALSE]

Retrieved(t, key, r) ==
    [key |-> key, got |-> r.got, raised |-> r.raised, data |-> Payload(key),
     expected |-> last[key].entry, earlier |-> last[key].earlier,
     live |-> Live(key),
     evicted |-> last[key].evicted, overlapped |-> StoreInProgress(t, key)]

NoArg == [key |-> <<>>, entry |-> <<>>]

\* store(key, ...) is called (SQLiteStorage: self._setup() runs first).
StoreCall(t, key, entry) ==
    /\ pc[t] = "idle"
    /\ ops < MaxOps
    /\ pc' = [pc EXCEPT ![t] = "store_lock"]
    /\ arg' = [arg EXCEPT ![t] = [key |-> key, entry |-> <<entry>>]]
    /\ ops' = ops + 1
    /\ setup_completed' = (setup_completed \/ backend = "sqlite")
    /\ UNCHANGED <<auxVars, wrapperVars, now, swept, backend, ttl, capacity, files, table,
                   cache, lock, result, last>>

\* The write is begun without taking self._lock.
StoreLock_Unlocked(t) ==
    /\ pc[t] = "store_lock"
    /\ files' = IF backend = "file" THEN FileOpen(files, arg[t].key) ELSE files
    /\ table' = IF backend = "sqlite" THEN SQLiteDelete(table, arg[t].key)
                ELSE table
    /\ pc' = [pc EXCEPT ![t] = "store_write"]
    /\ UNCHANGED <<auxVars, wrapperVars, now, swept, backend, ttl, capacity, cache, lock,
                   setup_completed, arg, result, ops, last>>

\* `with self._lock:` of store, and the first half of the write.
StoreLock(t) ==
    /\ pc[t] = "store_lock"
    /\ lock = "free"
    /\ lock' = t
    /\ files' = IF backend = "file" THEN FileOpen(files, arg[t].key) ELSE files
    /\ table' = IF backend = "sqlite" THEN SQLiteDelete(table, arg[t].key)
                ELSE table
    /\ pc' = [pc EXCEPT ![t] = "store_write"]
    /\ UNCHANGED <<auxVars, wrapperVars, now, swept, backend, ttl, capacity, cache,
                   setup_completed, arg, result, ops, last>>

\* StoreWrite with _remove_expired_caches() called inside `with self._lock:`
\* the lock is still held when the sweep is entered.
StoreWrite_KeepsLock(t) ==
    LET key == arg[t].key
        entry == arg[t].entry[1]
        evicted == IF backend = "memory" THEN LFUEvicted(cache, key) ELSE <<>>
    IN /\ pc[t] = "store_write"
       /\ files' = IF backend = "file" THEN FileWrite(files, key, entry)
                   ELSE files
       /\ table' = IF backend = "sqlite" THEN SQLiteInsert(table, key, entry)
                   ELSE table
       /\ cache' = IF backend = "memory" THEN MemoryPut(cache, key, entry)
                   ELSE cache
       /\ last' = [k \in StorageKeys |->
                     IF k = key
                     THEN LastStore(<<entry>>, now, FALSE,
                                    last[k].earlier \cup
                                    {last[k].entry[i] : i \in DOMAIN last[k].entry})
                     ELSE IF <<k>> = evicted
                     THEN [last[k] EXCEPT !.evicted = TRUE]
                     ELSE last[k]]
       /\ pc' = [pc EXCEPT ![t] = "store_sweep"]
       /\ UNCHANGED <<auxVars, wrapperVars, now, swept, backend, ttl, capacity,
                      lock, setup_completed, arg, result, ops>>

\* The second half of the write; the lock is released.
StoreWrite(t) ==
    LET key == arg[t].key
        entry == arg[t].entry[1]
        evicted == IF backend = "memory" THEN LFUEvicted(cache, key) ELSE <<>>
    IN /\ pc[t] = "store_write"
       /\ files' = IF backend = "file" THEN FileWrite(files, key, entry)
                   ELSE files
       /\ table' = IF backend = "sqlite" THEN SQLiteInsert(table, key, entry)
                   ELSE table
       /\ cache' = IF backend = "memory" THEN MemoryPut(cache, key, entry)
                   ELSE cache
       /\ last' = [k \in StorageKeys |->
                     IF k = key
                     THEN LastStore(<<entry>>, now, FALSE,
                                    last[k].earlier \cup
                                    {last[k].entry[i] : i \in DOMAIN last[k].entry})
                     ELSE IF <<k>> = evicted
                     THEN [last[k] EXCEPT !.evicted = TRUE]
                     ELSE last[k]]
       /\ lock' = "free"
       /\ pc' = [pc EXCEPT ![t] = "store_sweep"]
       /\ UNCHANGED <<auxVars, wrapperVars, now, swept, backend, ttl, capacity,
                      setup_completed, arg, result, ops>>

\* retrieve(key) is called (SQLiteStorage: self._setup() runs first).
RetrieveCall(t, key) ==
    /\ pc[t] = "idle"
    /\ ops < MaxOps
    /\ pc' = [pc EXCEPT ![t] = "retrieve_sweep"]
    /\ arg' = [arg EXCEPT ![t] = [key |-> key, entry |-> <<>>]]
    /\ ops' = ops + 1
    /\ setup_completed' = (setup_completed \/ backend = "sqlite")
    /\ UNCHANGED <<auxVars, wrapperVars, now, swept, backend, ttl, capacity, files, table,
                   cache, lock, result, last>>

\* _remove_expired_caches is called: it returns at once without a TTL, and
\* takes the lock with one.
SweepEnter(t) ==
    /\ pc[t] \in {"store_sweep", "retrieve_sweep"}
    /\ IF ~HasTTL
       THEN /\ pc' = [pc EXCEPT ![t] = IF pc[t] = "store_sweep" THEN "idle"
                                       ELSE "retrieve_lock"]
            /\ UNCHANGED lock
       ELSE /\ lock = "free"
            /\ lock' = t
            /\ pc' = [pc EXCEPT ![t] = IF pc[t] = "store_sweep"
                                       THEN "store_sweeping"
                                       ELSE "retrieve_sweeping"]
    /\ arg' = IF pc'[t] = "idle" THEN [arg EXCEPT ![t] = NoArg] ELSE arg
    /\ UNCHANGED <<auxVars, wrapperVars, now, swept, backend, ttl, capacity, files, table,
                   cache, setup_completed, result, ops, last>>

\* The sweep under the lock; the lock is released.
SweepRun(t) ==
    /\ pc[t] \in {"store_sweeping", "retrieve_sweeping"}
    /\ files' = IF backend = "file" THEN FileSweep(files) ELSE files
    /\ table' = IF backend = "sqlite" THEN SQLiteSweep(table) ELSE table
    /\ cache' = IF backend = "memory" THEN MemorySweep(cache) ELSE cache
    /\ lock' = "free"
    /\ pc' = [pc EXCEPT ![t] = IF pc[t] = "store_sweeping" THEN "idle"
                               ELSE "retrieve_lock"]
    /\ arg' = IF pc'[t] = "idle" THEN [arg EXCEPT ![t] = NoArg] ELSE arg
    /\ swept' = TRUE
    /\ UNCHANGED <<auxVars, wrapperVars, now, backend, ttl, capacity, setup_completed,
                   result, ops, last>>

\* The read is begun without taking self._lock.
RetrieveLock_Unlocked(t) ==
    /\ pc[t] = "retrieve_lock"
    /\ pc' = [pc EXCEPT ![t] = "retrieve_read"]
    /\ UNCHANGED <<auxVars, wrapperVars, now, swept, backend, ttl, capacity, files, table,
                   cache, lock, setup_completed, arg, result, ops, last>>

\* `with self._lock:` of retrieve.
RetrieveLock(t) ==
    /\ pc[t] = "retrieve_lock"
    /\ lock = "free"
    /\ lock' = t
    /\ pc' = [pc EXCEPT ![t] = "retrieve_read"]
    /\ UNCHANGED <<auxVars, wrapperVars, now, swept, backend, ttl, capacity, files, table,
                   cache, setup_completed, arg, result, ops, last>>

\* The read under the lock; the lock is released and retrieve returns.
RetrieveRead(t) ==
    LET key == arg[t].key
        r == IF backend = "file" THEN FileRead(files, key)
             ELSE IF backend = "sqlite" THEN SQLiteSelect(table, key)
             ELSE MemoryGet(cache, key)
    IN /\ pc[t] = "retrieve_read"
       /\ result' = [result EXCEPT ![t] = Retrieved(t, key, r)]
       /\ cache' = IF backend = "memory" THEN MemoryAfterGet(cache, key)
                   ELSE cache
       /\ lock' = "free"
       /\ pc' = [pc EXCEPT ![t] = "idle"]
       /\ arg' = [arg EXCEPT ![t] = NoArg]
       /\ UNCHANGED <<auxVars, wrapperVars, now, swept, backend, ttl, capacity, files, table,
                      setup_completed, ops, last>>

\* No thread is in a call.
ThreadsIdle ==
    /\ lock = "free"
    /\ swept = FALSE
    /\ setup_completed = FALSE
    /\ pc = [t \in Threads |-> "idle"]
    /\ arg = [t \in Threads |-> NoArg]
    /\ result = [t \in Threads |-> NoResult]
    /\ ops = 0

\* A fresh instance over an empty directory, database or cache.
BackendIdle ==
    /\ files = <<>>
    /\ table = <<>>
    /\ cache = <<>>
    /\ last = [k \in StorageKeys |-> NoStore]
    /\ ThreadsIdle

\* An instance that holds the entry an earlier store(key, entry) left.
BackendHolding(key, entry) ==
    /\ files = IF backend = "file" THEN FileWrite(<<>>, key, entry) ELSE <<>>
    /\ table = IF backend = "sqlite" THEN SQLiteInsert(<<>>, key, entry)
               ELSE <<>>
    /\ cache = IF backend = "memory" THEN MemoryPut(<<>>, key, entry) ELSE <<>>
    /\ last = [k \in StorageKeys |->
                 IF k = key
                 THEN LastStore(<<entry>>, now, FALSE, {})
                 ELSE NoStore]
    /\ ThreadsIdle

\* The wrappers: one client, the storage by its contract.
Init ==
    /\ storage = <<>>
    /\ now = 0
    /\ allow_stale \in BOOLEAN
    /\ cacheable_methods = CacheableMethods
    /\ wrapper \in {"pool", "transport"}
    /\ call = NoCall
    /\ codec = NoCodec
    /\ calls = NoCalls
    /\ admitted_at = <<>>
    /\ held = {}
    /\ twin = NoTwin
    /\ backend = "file"
    /\ ttl = <<>>
    /\ capacity = 1
    /\ BackendIdle

Next ==
    \/ \E request \in Requests, outcome \in Outcomes :
           PoolHandleRequest(request, outcome)
    \/ \E request \in Requests, outcome \in Outcomes :
           TransportHandleRequest(request, outcome)
    \/ Tick

Spec == Init /\ [][Next]_vars

\* The wrappers over a storage backend that may raise.
FaultyRequests == {GetPlain, GetNoCache, GetAccept}

FaultyOutcomes ==
    {Answer(Ok200), Answer(Ok200ETag), Answer(Ok200NoStore),
     Answer(NotModified304), ConnectError}

NextFaulty ==
    \/ \E request \in FaultyRequests, outcome \in FaultyOutcomes :
           PoolHandleRequest(request, outcome)
    \/ \E request \in FaultyRequests, outcome \in FaultyOutcomes :
           TransportHandleRequest(request, outcome)
    \/ \E request \in FaultyRequests, outcome \in FaultyOutcomes,
             fault \in StorageFaults :
           PoolStorageError(request, outcome, fault)
    \/ \E request \in FaultyRequests, outcome \in FaultyOutcomes,
             fault \in StorageFaults :
           TransportStorageError(request, outcome, fault)
    \/ Tick

SpecFaulty == Init /\ [][NextFaulty]_vars

\* The wrappers under Controller(cacheable_methods=["POST"]).
InitPost ==
    /\ storage = <<>>
    /\ now = 0
    /\ allow_stale \in BOOLEAN
    /\ cacheable_methods = {"POST"}
    /\ wrapper \in {"pool", "transport"}
    /\ call = NoCall
    /\ codec = NoCodec
    /\ calls = NoCalls
    /\ admitted_at = <<>>
    /\ held = {}
    /\ twin = NoTwin
    /\ backend = "file"
    /\ ttl = <<>>
    /\ capacity = 1
    /\ BackendIdle

PostRequests == {PostFirst, PostSecond, GetPlain}

PostOutcomes == {Answer(Moved301), Answer(Ok200), Answer(Ok200ETag), ConnectError}

NextPost ==
    \/ \E request \in PostRequests, outcome \in PostOutcomes :
           PoolHandleRequest(request, outcome)
    \/ \E request \in PostRequests, outcome \in PostOutcomes :
           TransportHandleRequest(request, outcome)
    \/ Tick

SpecPost == InitPost /\ [][NextPost]_vars

\* The wrappers constructed over a FileStorage or over an AsyncFileStorage.
InitMismatch ==
    /\ storage = <<>>
    /\ now = 0
    /\ allow_stale \in BOOLEAN
    /\ cacheable_methods = CacheableMethods
    /\ wrapper \in {"pool", "transport"}
    /\ call = NoCall
    /\ codec = NoCodec
    /\ calls = NoCalls
    /\ admitted_at = <<>>
    /\ held = {}
    /\ twin = NoTwin
    /\ backend \in {"file"} \cup AsyncStorages
    /\ ttl = <<>>
    /\ capacity = 1
    /\ BackendIdle

NextMismatch ==
    \/ /\ backend \notin AsyncStorages
       /\ \E request \in FaultyRequests, outcome \in FaultyOutcomes :
              PoolHandleRequest(request, outcome)
    \/ /\ backend \notin AsyncStorages
       /\ \E request \in FaultyRequests, outcome \in FaultyOutcomes :
              TransportHandleRequest(request, outcome)
    \/ \E request \in FaultyRequests : PoolWrongStorage(request)
    \/ \E request \in FaultyRequests : TransportWrongStorage(request)
    \/ Tick

SpecMismatch == InitMismatch /\ [][NextMismatch]_vars

\* The serializers alone.
NextSerializer ==
    \E serializer \in Serializers, status \in {200, 301},
       headers \in HeaderLists, content \in {"test", ""},
       url \in {"https://example.com", "https://example.com/path"},
       metadata \in {dummy_metadata, Metadata(<<"test">>, 1, 1)} :
        RoundTrip(serializer, TestResponse(status, headers, content),
                  TestRequest(url, headers), metadata)

SpecSerializer == Init /\ [][NextSerializer]_vars

\* Two clients of one CacheConnectionPool whose storage is empty or holds
\* the answer to an earlier request.
InitConcurrent ==
    /\ storage \in {<<>>,
                    generate_key(GetPlain) :>
                        StoredResponse(Ok200ETag, GetPlain,
                                       Metadata(generate_key(GetPlain), 0, 0))}
    /\ now = 0
    /\ allow_stale \in BOOLEAN
    /\ cacheable_methods = CacheableMethods
    /\ wrapper = "pool"
    /\ call = NoCall
    /\ codec = NoCodec
    /\ calls = NoCalls
    /\ admitted_at = <<>>
    /\ held = {}
    /\ twin = NoTwin
    /\ backend = "file"
    /\ ttl = <<>>
    /\ capacity = 1
    /\ BackendIdle

ConcurrentRequests == {GetPlain, GetNoCache}

ConcurrentOutcomes ==
    {Answer(Ok200ETag), Answer(Ok200StaleIfError), Answer(Ok200NoStore),
     Answer(NotModified304), ConnectError}

NextConcurrent ==
    \/ \E c \in Clients, request \in ConcurrentRequests :
           ClientRetrieve(c, request)
    \/ \E c \in Clients : ClientServeFromCache(c)
    \/ \E c \in Clients, outcome \in ConcurrentOutcomes :
           ClientDispatch(c, outcome)
    \/ \E c \in Clients : ClientAdmit(c)

SpecConcurrent == InitConcurrent /\ [][NextConcurrent]_vars

\* One backend instance and its threads.
InitStorage ==
    /\ storage = <<>>
    /\ now = 0
    /\ allow_stale = FALSE
    /\ cacheable_methods = CacheableMethods
    /\ wrapper = "pool"
    /\ call = NoCall
    /\ codec = NoCodec
    /\ calls = NoCalls
    /\ admitted_at = <<>>
    /\ held = {}
    /\ twin = NoTwin
    /\ backend \in {"file", "sqlite", "memory"}
    /\ ttl \in {<<>>, <<1>>}
    /\ capacity \in IF backend = "memory" THEN {1, 2} ELSE {1}
    /\ \/ BackendIdle
       \/ \E key \in StorageKeys : BackendHolding(key, test_entry)

NextStorage ==
    \/ \E t \in Threads, key \in StorageKeys, entry \in Entries :
           StoreCall(t, key, entry)
    \/ \E t \in Threads : StoreLock(t)
    \/ \E t \in Threads : StoreWrite(t)
    \/ \E t \in Threads, key \in StorageKeys : RetrieveCall(t, key)
    \/ \E t \in Threads : SweepEnter(t)
    \/ \E t \in Threads : SweepRun(t)
    \/ \E t \in Threads : RetrieveLock(t)
    \/ \E t \in Threads : RetrieveRead(t)
    \/ Tick

SpecStorage == InitStorage /\ [][NextStorage]_vars

\* The steps of a call that thread t is in.
ThreadStep(t) ==
    \/ StoreLock(t)
    \/ StoreWrite(t)
    \/ SweepEnter(t)
    \/ SweepRun(t)
    \/ RetrieveLock(t)
    \/ RetrieveRead(t)

\* An instance over a directory or database in which the payload of a key
\* is damaged: a file left empty, or bytes the serializer did not write.
InitDamaged ==
    /\ storage = <<>>
    /\ now = 0
    /\ allow_stale = FALSE
    /\ cacheable_methods = CacheableMethods
    /\ wrapper = "pool"
    /\ call = NoCall
    /\ codec = NoCodec
    /\ calls = NoCalls
    /\ admitted_at = <<>>
    /\ held = {}
    /\ twin = NoTwin
    /\ backend \in {"file", "sqlite"}
    /\ ttl \in {<<>>, <<1>>}
    /\ capacity = 1
    /\ \E key \in StorageKeys, data \in {EmptyData, CorruptData} :
           /\ files = IF backend = "file"
                      THEN key :> [data |-> data, mtime |-> now] ELSE <<>>
           /\ table = IF backend = "sqlite" /\ data = CorruptData
                      THEN <<Row(key, data, now)>> ELSE <<>>
    /\ cache = <<>>
    /\ last = [k \in StorageKeys |-> NoStore]
    /\ ThreadsIdle

SpecDamaged == InitDamaged /\ [][NextStorage]_vars

\* A third URL, for a store that finds a cache of two keys full.
GetThird == Request("GET", "third.example.com", NoHeaders, "", FALSE)

MemoryKeys == StorageKeys \cup {generate_key(GetThird)}

\* An InMemoryStorage that is empty, or full of entries that earlier stores
\* admitted and earlier retrieves used.
InitMemory ==
    /\ storage = <<>>
    /\ now = 0
    /\ allow_stale = FALSE
    /\ cacheable_methods = CacheableMethods
    /\ wrapper = "pool"
    /\ call = NoCall
    /\ codec = NoCodec
    /\ calls = NoCalls
    /\ admitted_at = <<>>
    /\ held = {}
    /\ twin = NoTwin
    /\ backend = "memory"
    /\ ttl \in {<<>>, <<1>>}
    /\ capacity \in {1, 2}
    /\ \/ BackendIdle
       \/ \E first \in StorageKeys, f1 \in 1..2, f2 \in 1..2 :
              LET entry == test_entry
                  second == CHOOSE k \in StorageKeys : k # first
                  items == IF capacity = 1
                           THEN <<Item(first, entry, now, f1)>>
                           ELSE <<Item(first, entry, now, f1),
                                  Item(second, entry, now, f2)>>
              IN /\ cache = items
                 /\ last = [k \in StorageKeys |->
                              IF k \in LFUKeys(items)
                              THEN LastStore(<<entry>>, now, FALSE, {})
                              ELSE NoStore]
                 /\ files = <<>>
                 /\ table = <<>>
                 /\ ThreadsIdle

NextMemory ==
    \/ \E t \in Threads, key \in MemoryKeys : StoreCall(t, key, test_entry)
    \/ \E t \in Threads : StoreLock(t)
    \/ \E t \in Threads : StoreWrite(t)
    \/ \E t \in Threads, key \in StorageKeys : RetrieveCall(t, key)
    \/ \E t \in Threads : SweepEnter(t)
    \/ \E t \in Threads : SweepRun(t)
    \/ \E t \in Threads : RetrieveLock(t)
    \/ \E t \in Threads : RetrieveRead(t)
    \/ Tick

SpecMemory == InitMemory /\ [][NextMemory]_vars

\* An instance with a TTL that holds an entry.
InitExpiry ==
    /\ storage = <<>>
    /\ now = 0
    /\ allow_stale = FALSE
    /\ cacheable_methods = CacheableMethods
    /\ wrapper = "pool"
    /\ call = NoCall
    /\ codec = NoCodec
    /\ calls = NoCalls
    /\ admitted_at = <<>>
    /\ held = {}
    /\ twin = NoTwin
    /\ backend \in {"file", "sqlite", "memory"}
    /\ ttl = <<1>>
    /\ capacity \in IF backend = "memory" THEN {1, 2} ELSE {1}
    /\ \E key \in StorageKeys : BackendHolding(key, test_entry)

\* The calls of the expiry tests: one response, stored for two keys.
NextExpiry ==
    \/ \E t \in Threads, key \in StorageKeys : StoreCall(t, key, test_entry)
    \/ \E t \in Threads : StoreLock(t)
    \/ \E t \in Threads : StoreWrite(t)
    \/ \E t \in Threads, key \in StorageKeys : RetrieveCall(t, key)
    \/ \E t \in Threads : SweepEnter(t)
    \/ \E t \in Threads : SweepRun(t)
    \/ \E t \in Threads : RetrieveLock(t)
    \/ \E t \in Threads : RetrieveRead(t)
    \/ Tick

\* A thread that is in a call goes on with it: it waits for the lock only
\* while another thread's critical section lasts.
FairSpecExpiry ==
    /\ InitExpiry
    /\ [][NextExpiry]_vars
    /\ \A t \in Threads : WF_vars(ThreadStep(t))

----------------------------------------------------------------------------
(* Properties of handle_request.                                           *)

\* The stored entry the last call retrieved (when it retrieved one).
Stored == call.retrieved[1]

\* The last call dispatched a revalidation request and the origin answered it.
RevalidationAnswered ==
    /\ call.decision = "request"
    /\ Len(call.answers) = 1
    /\ call.answers[1].kind = "response"

\* The last call dispatched a revalidation request and the dispatch raised
\* ConnectError.
RevalidationFailed ==
    /\ call.decision = "request"
    /\ call.answers = <<ConnectError>>

\* C1: when the controller selects the stored response as fresh,
\* handle_request returns that stored response with from_cache = true and
\* hands nothing to the underlying transport; in particular a plain GET that
\* finds the 301 stored by an identical GET is answered from the cache with
\* status 301.
C1_FreshHitServedFromCache ==
    /\ call.decision = "response" =>
          /\ ~call.raised
          /\ call.response = Stored.response
          /\ call.from_cache
          /\ call.sent = <<>>
    /\ ( /\ call.request = GetPlain
         /\ call.retrieved # <<>>
         /\ Stored.request = GetPlain
         /\ Stored.response = Moved301 ) =>
          /\ call.from_cache
          /\ call.response.status = 301
          /\ call.sent = <<>>

C1_Witness ==
    /\ call.request = GetPlain
    /\ call.decision = "response"
    /\ Stored.request = GetPlain
    /\ Stored.response = Moved301
    /\ call.from_cache

\* The headers of the 304 response that are not hop-by-hop.
EndToEnd(headers) == DOMAIN headers \ HopByHopHeaders

\* What both the claim and its amendment say of a revalidation answered with
\* 304, but for the end-to-end headers: status and body are the stored ones,
\* the response is marked from_cache, a header the 304 does not replace keeps
\* its stored value, and no hop-by-hop header of the 304 is copied.
MergedFromStored(new) ==
    /\ ~call.raised
    /\ call.from_cache
    /\ call.response.status = Stored.response.status
    /\ call.response.content = Stored.response.content
    /\ DOMAIN call.response.headers
         = DOMAIN Stored.response.headers \cup EndToEnd(new.headers)
    /\ \A n \in DOMAIN Stored.response.headers \ EndToEnd(new.headers) :
          call.response.headers[n] = Stored.response.headers[n]

\* C2 as stated: after a 304, EVERY end-to-end header of the 304 overrides the
\* stored one or is added.
C2_Original ==
    (RevalidationAnswered /\ call.answers[1].response.status = 304) =>
       LET new == call.answers[1].response IN
       /\ MergedFromStored(new)
       /\ \A n \in EndToEnd(new.headers) :
             call.response.headers[n] = new.headers[n]

\* C2 (amended): after a 304, handle_request returns the stored status and
\* body, marked from_cache = true, with the stored headers in which every
\* end-to-end header of the 304 other than Content-Length overrides the stored
\* one or is added; hop-by-hop headers are never copied and Content-Length is
\* never taken from the 304.
C2_Revalidated304Merge ==
    (RevalidationAnswered /\ call.answers[1].response.status = 304) =>
       LET new == call.answers[1].response
           copied == EndToEnd(new.headers) \ {"content-length"}
       IN /\ ~call.raised
          /\ call.from_cache
          /\ call.response.status = Stored.response.status
          /\ call.response.content = Stored.response.content
          /\ DOMAIN call.response.headers
               = DOMAIN Stored.response.headers \cup copied
          /\ \A n \in copied : call.response.headers[n] = new.headers[n]
          /\ \A n \in DOMAIN Stored.response.headers \ copied :
                call.response.headers[n] = Stored.response.headers[n]

C2_Witness ==
    /\ RevalidationAnswered
    /\ call.answers[1].response = NotModified304
    /\ Stored.response = Ok200ETag
    /\ call.response.status = 200
    /\ call.response.content = "test"
    /\ call.response.headers["content-type"] = "application/json"
    /\ call.response.headers["content-length"] = "4"
    /\ "connection" \notin DOMAIN call.response.headers
    /\ call.from_cache

\* C3: when the origin answers the revalidation request, the returned
\* response is marked from_cache = true if and only if that answer has status
\* 304 (with allow_stale set and a 200 answer: from_cache = false).
C3_FromCacheIff304 ==
    RevalidationAnswered =>
       /\ ~call.raised
       /\ call.from_cache = (call.answers[1].response.status = 304)

C3_Witness ==
    /\ allow_stale
    /\ RevalidationAnswered
    /\ call.answers[1].response.status = 200
    /\ ~call.raised
    /\ ~call.from_cache

\* C4: when the revalidation dispatch raises ConnectError, handle_request
\* returns the stored response marked from_cache = true if
\* allowed_stale(stored_response) holds and propagates the error otherwise,
\* in CacheConnectionPool and in CacheTransport.
C4_ConnectErrorServesStale ==
    RevalidationFailed =>
       IF allowed_stale(Stored.response)
       THEN /\ ~call.raised
            /\ call.response = Stored.response
            /\ call.from_cache
       ELSE call.raised

\* C5: a stored response that carries must-revalidate or proxy-revalidate is
\* not served when its revalidation fails with ConnectError: the error is
\* propagated, whatever allow_stale is.
MustRevalidate(response) ==
    cache_control(response.headers).flags
        \cap {"must-revalidate", "proxy-revalidate"} # {}

C5_MustRevalidateNeverStale ==
    (RevalidationFailed /\ MustRevalidate(Stored.response)) =>
       /\ call.raised
       /\ call.response = NoResponse
       /\ ~call.from_cache

C5_Witness ==
    /\ allow_stale
    /\ wrapper = "pool"
    /\ RevalidationFailed
    /\ Stored.response = Ok200MustRevalidate
    /\ call.raised

\* C6: a request with Cache-Control: only-if-cached for which the controller
\* yields no immediate stored Response (nothing stored, a miss, or a
\* revalidation request) is answered with a synthesized 504 with an empty
\* body, and nothing is handed to the underlying transport.
C6_OnlyIfCached504 ==
    ( /\ call.decision \in {"absent", "miss", "request"}
      /\ "only-if-cached" \in cache_control(call.request.headers).flags ) =>
       /\ ~call.raised
       /\ call.response.status = 504
       /\ call.response.content = ""
       /\ call.sent = <<>>

\* C7: a request with extension cache_disabled = true is forwarded to the
\* transport, its response is marked from_cache = false and is not admitted:
\* the call stores nothing, so the entry of its key stays what it was.
C7_CacheDisabledNotAdmitted ==
    (call.request.cache_disabled /\ call.decision # "none" /\ ~call.raised) =>
       /\ call.sent = <<call.request>>
       /\ ~call.from_cache
       /\ call.admitted = <<>>
       /\ (call.retrieved # <<>> =>
             /\ generate_key(call.request) \in DOMAIN storage
             /\ storage[generate_key(call.request)] = Stored)
       /\ (call.retrieved = <<>> =>
             generate_key(call.request) \notin DOMAIN storage)

----------------------------------------------------------------------------
(* Properties of the storage backends. *)

\* Thread t has retrieved, and what it got is in result[t].
HasRetrieved(t) == result[t].key # <<>>

C10_Original ==
    \A t \in Threads :
        (HasRetrieved(t) /\ ~result[t].overlapped) =>
            /\ ~result[t].raised
            /\ \/ result[t].got = result[t].expected
               \/ result[t].got = <<>> /\ ~result[t].live

\* C10: a retrieve(K) made when no store of K is in progress gives the
\* entry of the last store of K, never one given to an earlier store; it
\* gives nothing only if K was never stored, the entry has exceeded the
\* TTL, or InMemoryStorage evicted K when a new key was stored at capacity.
C10_RetrieveLastStore ==
    \A t \in Threads :
        (HasRetrieved(t) /\ ~result[t].overlapped) =>
            /\ ~result[t].raised
            /\ result[t].got # <<>> => result[t].got = result[t].expected
            /\ result[t].got = <<>> =>
                   \/ result[t].expected = <<>>
                   \/ ~result[t].live
                   \/ backend = "memory" /\ result[t].evicted

\* A retrieve has returned the entry of the last store of a key that an
\* earlier store had given another entry.
C10_Witness ==
    \E t \in Threads :
        /\ HasRetrieved(t) /\ ~result[t].overlapped
        /\ result[t].got # <<>>
        /\ result[t].got = result[t].expected
        /\ result[t].earlier # {}
        /\ result[t].got[1] \notin result[t].earlier

\* C11: with a TTL configured, a retrieve(K) that reads when the entry of the
\* last store of K is older than the TTL returns nothing, whatever the
\* clock and the other threads did during the call.
C11_ExpiredEntryAbsent ==
    \A t \in Threads :
        (HasTTL /\ HasRetrieved(t) /\ ~result[t].live) =>
            result[t].got = <<>>

\* The times at which what the backend holds for key was written.
StoredTimes(key) ==
    IF backend = "file"
    THEN IF key \in DOMAIN files THEN {files[key].mtime} ELSE {}
    ELSE IF backend = "sqlite"
    THEN {table[i].date_created : i \in {j \in 1..Len(table) : table[j].key = key}}
    ELSE {cache[i].time : i \in {j \in 1..Len(cache) : cache[j].key = key}}

\* The backend holds for key something older than the TTL.
HoldsExpired(key) ==
    HasTTL /\ \E time \in StoredTimes(key) : now - time > ttl[1]

\* Thread t is in a store or retrieve call that has its sweep ahead.
SweepAhead(t) ==
    pc[t] \in {"store_lock", "store_write", "store_sweep", "store_sweeping",
               "retrieve_sweep", "retrieve_sweeping"}

\* C12: with a TTL configured, once a store or retrieve call for any key is
\* under way, an entry that is older than the TTL is removed: the sweep of
\* that call deletes it.
C12_ExpiredEventuallyRemoved ==
    \A key \in StorageKeys :
        (HoldsExpired(key) /\ \E t \in Threads : SweepAhead(t))
            ~> ~HoldsExpired(key)

\* An entry has outlived the TTL and a store of the other key is under way.
C12_Witness ==
    \E key \in StorageKeys, t \in Threads :
        /\ HoldsExpired(key)
        /\ pc[t] = "store_lock"
        /\ arg[t].key # key

\* What the backend holds for key, with the time it was written.
Held(key) ==
    IF backend = "file"
    THEN IF key \in DOMAIN files
         THEN {<<files[key].data, files[key].mtime>>} ELSE {}
    ELSE IF backend = "sqlite"
    THEN {<<table[i].data, table[i].date_created>> :
             i \in {j \in 1..Len(table) : table[j].key = key}}
    ELSE {<<cache[i].value, cache[i].time>> :
             i \in {j \in 1..Len(cache) : cache[j].key = key}}

\* A sweep leaves in place whatever is no older than the TTL.
SweepKeepsLive ==
    (\E t \in Threads : SweepRun(t)) =>
        \A key \in StorageKeys : \A h \in Held(key) :
            (now - h[2] <= ttl[1]) => h \in Held(key)'

\* C13 as stated: a sweep removes nothing that is no older than the TTL,
\* and a retrieve(K) that reads while the last entry of K is no older than
\* the TTL returns that entry.
C13_Original ==
    /\ [](\A t \in Threads :
            (HasTTL /\ HasRetrieved(t) /\ result[t].live) =>
                result[t].got = result[t].expected)
    /\ [][SweepKeepsLive]_vars

\* C13: a sweep removes nothing that is no older than the TTL, and a
\* retrieve(K) that reads while the last entry of K is no older than the
\* TTL returns that entry, unless InMemoryStorage evicted K when another
\* key was stored at capacity.
C13_LiveEntryKept ==
    /\ [](\A t \in Threads :
            (HasTTL /\ HasRetrieved(t) /\ result[t].live
                /\ ~(backend = "memory" /\ result[t].evicted)) =>
                result[t].got = result[t].expected)
    /\ [][SweepKeepsLive]_vars

\* An entry that has reached the TTL without exceeding it has been
\* retrieved, after the sweep of the retrieve.
C13_Witness ==
    \E t \in Threads :
        /\ HasTTL /\ HasRetrieved(t)
        /\ result[t].got # <<>>
        /\ result[t].got = last[result[t].key].entry
        /\ last[result[t].key].time = 0
        /\ now = ttl[1]

\* C14: of the store and retrieve calls made on one instance without the
\* clock advancing in between (so within any check_ttl_every interval), at
\* most one executes the sweep over the stored entries.
C14_SweepOncePerInterval ==
    [][(\E t \in Threads : SweepRun(t)) => ~swept]_vars

\* C15: FileStorage.retrieve(K) that finds the file of K empty returns
\* nothing and raises no exception.
C15_EmptyFileAbsent ==
    \A t \in Threads :
        (backend = "file" /\ HasRetrieved(t)
            /\ result[t].data = <<EmptyData>>) =>
            ~result[t].raised /\ result[t].got = <<>>

\* C16: retrieve(K) that finds for K bytes the serializer cannot decode
\* returns nothing and raises no exception.
C16_CorruptPayloadAbsent ==
    \A t \in Threads :
        (HasRetrieved(t) /\ result[t].data = <<CorruptData>>) =>
            ~result[t].raised /\ result[t].got = <<>>

----------------------------------------------------------------------------
(* Properties of the metadata that handle_request stores. *)

\* The entry that the storage holds for the key of the last call.
StoredNow == retrieve(generate_key(call.request))[1]

\* The last call revalidated and the origin answered with this status.
RevalidatedWith304 ==
    RevalidationAnswered /\ call.answers[1].response.status = 304

\* C17: a call served from the cache, and a call whose revalidation was
\* answered with 304, leave the stored entry with number_of_uses one above
\* what it was; a revalidation answered otherwise does not lower it.
C17_NumberOfUses ==
    /\ (call.decision = "response" \/ RevalidatedWith304) =>
           StoredNow.metadata.number_of_uses
               = Stored.metadata.number_of_uses + 1
    /\ RevalidationAnswered =>
           StoredNow.metadata.number_of_uses
               >= Stored.metadata.number_of_uses

\* C18: after a revalidation that the origin answered, with 304 or not, the
\* stored entry has the created_at that the entry had before.
C18_CreatedAtKept ==
    RevalidationAnswered =>
        StoredNow.metadata.created_at = Stored.metadata.created_at

\* The pool has replaced, after a revalidation answered with 200, an entry
\* created at an earlier time.
C18_Witness ==
    /\ wrapper = "pool"
    /\ RevalidationAnswered
    /\ call.answers[1].response.status = 200
    /\ StoredNow.response.content # Stored.response.content
    /\ Stored.metadata.created_at = 0
    /\ now > 0

\* C19: in the pool, a revalidation answered with a response other than
\* 304 leaves the stored entry with number_of_uses 0, and one answered with
\* 304 leaves it one above what it was.
C19_UsesResetOnReplacement ==
    (wrapper = "pool" /\ RevalidationAnswered) =>
        StoredNow.metadata.number_of_uses
            = IF call.answers[1].response.status = 304
              THEN Stored.metadata.number_of_uses + 1
              ELSE 0

\* C20: whenever handle_request calls store, on the hit path, after a
\* revalidation or on pass-through, it has called read() on the response
\* before: the stored body is complete.
C20_BodyReadBeforeStore ==
    \A i \in DOMAIN call.steps :
        call.steps[i] = "store" =>
            \E j \in 1..(i - 1) : call.steps[j] = "read"

\* The transport has admitted the answer of the origin on pass-through.
C20_Witness ==
    /\ wrapper = "transport"
    /\ call.path = "passthrough"
    /\ call.admitted # <<>>
    /\ call.steps = <<"read", "store">>

----------------------------------------------------------------------------
(* Properties of handle_request on errors. *)

\* The dispatch of the last call ended in an exception of the transport.
DispatchRaised == call.answers = <<ConnectError>>

StorageErrored == call.storage_error \in StorageFaults

\* C22: a call in which retrieve or store of the storage raised ends with
\* the exception and with no response; the storage is left as it was, and
\* a retrieve that raised is followed by no dispatch.
C22_StorageErrorPropagates ==
    StorageErrored =>
        /\ call.raised
        /\ call.response = NoResponse
        /\ ~call.from_cache
        /\ call.admitted = <<>>
        /\ call.storage_error = "retrieve" => call.sent = <<>>

\* The store of a fresh answer raised after the dispatch.
C22_Witness ==
    /\ call.storage_error = "store"
    /\ call.raised
    /\ call.sent # <<>>
    /\ call.answers[1].kind = "response"

----------------------------------------------------------------------------
(* Properties of the extensions of a returned response.                    *)

\* C23: a response served from the cache carries in its extensions the
\* cache_metadata of the stored entry (cache_key, created_at and
\* number_of_uses), and its cache_key is the key the call retrieved with.
C23_CacheMetadataCarried ==
    (call.from_cache /\ call.retrieved # <<>>) =>
        /\ call.cache_metadata # <<>>
        /\ call.cache_metadata[1] \in {Stored.metadata, StoredNow.metadata}
        /\ call.cache_metadata[1].cache_key = generate_key(call.request)

----------------------------------------------------------------------------
(* Properties of the keys of requests with a body.                         *)

\* The storage holds an entry admitted for this very request.
AdmittedFor(request) ==
    \E key \in DOMAIN storage : storage[key].request = request

\* The storage holds the 301 answer to this very request.
Holds301For(request) ==
    \E key \in DOMAIN storage :
        /\ storage[key].request = request
        /\ storage[key].response = Moved301

\* C24: with POST cacheable, POST requests to one URL with different bodies
\* have different keys: a POST for whose body nothing was admitted is a miss
\* that goes to the transport, whatever is stored for the other body, and a
\* repeat of the POST whose 301 answer is stored is a hit.
C24_PostKeyedByBody ==
    /\ generate_key(PostFirst) # generate_key(PostSecond)
    /\ [][\A request \in {PostFirst, PostSecond} :
              (now' = now /\ call'.request = request) =>
                  /\ ~AdmittedFor(request) =>
                         /\ call'.retrieved = <<>>
                         /\ ~call'.from_cache
                         /\ call'.sent = <<request>>
                  /\ Holds301For(request) =>
                         /\ call'.from_cache
                         /\ call'.sent = <<>>
                         /\ call'.response = Moved301]_vars

\* The second POST has gone to the transport while the answer to the first
\* is stored.
C24_Witness ==
    /\ call.request = PostSecond
    /\ call.retrieved = <<>>
    /\ ~call.from_cache
    /\ call.sent = <<PostSecond>>
    /\ Holds301For(PostFirst)
    /\ ~AdmittedFor(PostSecond)

----------------------------------------------------------------------------
(* Properties of the construction of the wrappers.                         *)

\* C25: no wrapper exists over a storage of the other concurrency model:
\* its construction fails with a TypeError, so no request reaches it.
C25_WrongStorageRejected ==
    wrapper \in {"pool", "transport"} => backend \notin AsyncStorages

----------------------------------------------------------------------------
(* Properties of the capacity of InMemoryStorage.                          *)

\* Thread t's store puts a key the cache does not hold into a full cache.
AdmitsAtCapacity(t) ==
    /\ backend = "memory"
    /\ pc[t] = "store_write"
    /\ pc'[t] = "store_sweep"
    /\ arg[t].key \notin LFUKeys(cache)
    /\ Len(cache) = capacity

\* The keys of the cache that no other key was used less often than.
LeastUsed(c) ==
    {c[i].key : i \in {i \in 1..Len(c) : \A j \in 1..Len(c) : c[i].freq <= c[j].freq}}

\* C26: InMemoryStorage never holds more entries than its capacity, and a
\* store of a new key into a full cache evicts one key, a least-frequently-
\* used one, and admits the new key.
C26_CapacityBounded ==
    /\ [](backend = "memory" => Len(cache) <= capacity)
    /\ [][\A t \in Threads :
              AdmitsAtCapacity(t) =>
                  \E victim \in LeastUsed(cache) :
                      LFUKeys(cache') =
                          (LFUKeys(cache) \ {victim}) \cup {arg[t].key}]_vars

\* A store of a third key has evicted the less used of two keys and kept
\* the other.
C26_Witness ==
    /\ backend = "memory"
    /\ capacity = 2
    /\ Len(cache) = 2
    /\ generate_key(GetThird) \in LFUKeys(cache)
    /\ \E k \in StorageKeys : k \in LFUKeys(cache) /\ last[k].entry # <<>>
    /\ \E k \in StorageKeys : last[k].evicted

----------------------------------------------------------------------------
(* Properties of the serializers.                                          *)

\* C27: for every serializer, what loads gives for the output of dumps is
\* the response, the request and the metadata that were dumped.
C27_RoundTrip ==
    codec # NoCodec => codec.loaded = codec.input

----------------------------------------------------------------------------
(* Properties of a revalidation answered with a new response.              *)

\* The revalidation request of the last call was answered with a status
\* other than 304.
RevalidatedWithNew ==
    /\ call.path = "revalidated"
    /\ call.answers # <<>>
    /\ call.answers[1].kind = "response"
    /\ call.answers[1].response.status # 304

\* C28: after a revalidation answered with a status other than 304 the call
\* returns the new response as it was received, not marked from_cache, and
\* the entry of the key holds the new response: a retrieve gives it, and
\* not the response that was stored before.
C28_RevalidationReplaces ==
    RevalidatedWithNew =>
        /\ call.response = call.answers[1].response
        /\ ~call.from_cache
        /\ call.sent # <<>>
        /\ retrieve(generate_key(call.request)) # <<>>
        /\ StoredNow.response = call.answers[1].response

\* A stored response was revalidated and replaced by a different one.
C28_Witness ==
    /\ RevalidatedWithNew
    /\ Stored.response # call.answers[1].response
    /\ StoredNow.response # Stored.response

----------------------------------------------------------------------------
(* Properties of the lock of FileStorage and SQLiteStorage.                *)

\* Thread t is inside the write of store, the read of retrieve or a sweep.
InCriticalSection(t) ==
    pc[t] \in {"store_write", "store_sweeping", "retrieve_sweeping",
               "retrieve_read"}

\* Thread t has reached a `with self._lock:` and has not entered it.
AtLock(t) ==
    \/ pc[t] \in {"store_lock", "retrieve_lock"}
    \/ pc[t] \in {"store_sweep", "retrieve_sweep"} /\ HasTTL

\* C29: in FileStorage and SQLiteStorage no two threads are at once inside
\* the write, read or sweep sections of one instance, and the thread that
\* is inside one holds the lock of the instance.
C29_OneCriticalSection ==
    backend \in {"file", "sqlite"} =>
        \A t \in Threads :
            InCriticalSection(t) =>
                /\ lock = t
                /\ \A u \in Threads \ {t} : ~InCriticalSection(u)

\* One thread is inside a section while the other waits at the lock.
C29_Witness ==
    /\ backend \in {"file", "sqlite"}
    /\ \E t \in Threads, u \in Threads :
           /\ t # u
           /\ InCriticalSection(t)
           /\ AtLock(u)

----------------------------------------------------------------------------
(* Properties of the table of SQLiteStorage.                               *)

\* C30: in SQLiteStorage the table holds at most one row for any key, in
\* every interleaving of the store, retrieve and sweep calls of the threads.
C30_OneRowPerKey ==
    backend = "sqlite" =>
        \A key \in StorageKeys : Len(Rows(table, key, TRUE)) <= 1

\* A store has replaced the row of a key that an earlier store had written,
\* and no call is in progress.
C30_Witness ==
    /\ backend = "sqlite"
    /\ \A t \in Threads : pc[t] = "idle"
    /\ \E key \in StorageKeys :
           /\ last[key].earlier # {}
           /\ Len(Rows(table, key, TRUE)) = 1
           /\ Rows(table, key, TRUE)[1].data = dumps(last[key].entry[1])

----------------------------------------------------------------------------
(* Properties of the dispatches of one call.                               *)

\* C31: a call dispatches to the underlying transport at most once, and not
\* at all when it serves the stored response; every dispatch has one
\* outcome, and the one request of a revalidating call is the conditional
\* request of the controller.
C31_AtMostOneDispatch ==
    /\ Len(call.sent) <= 1
    /\ Len(call.answers) = Len(call.sent)
    /\ call.path = "hit" => call.sent = <<>>
    /\ (call.decision = "request" /\ call.sent # <<>>) =>
           call.sent[1].headers = make_request_conditional(
                                      call.request, Stored.response).headers

\* A revalidation was answered with a new response and the call returned
\* after its one dispatch.
C31_Witness ==
    /\ call.path = "revalidated"
    /\ Len(call.sent) = 1
    /\ call.answers[1].kind = "response"
    /\ call.answers[1].response.status # 304
    /\ call.response = call.answers[1].response

----------------------------------------------------------------------------
(* Properties of concurrent handle_request calls.                          *)

\* C32: once a revalidation or pass-through admission for a key has
\* completed, the storage holds for the key the response of the last such
\* admission: the store of a cache hit does not put an older response back.
C32_HitKeepsNewer ==
    calls.latest # <<>> =>
        \A key \in DOMAIN storage : storage[key].response = calls.latest[1]

----------------------------------------------------------------------------
(* Properties of what is admitted.                                         *)

\* C33: every response that a call admits to the storage satisfies
\* is_cachable for the request of the call, the answer to a revalidation
\* request included.
C33_AdmittedIsCachable ==
    call.admitted # <<>> =>
        is_cachable(call.admitted[1].request, call.admitted[1].response)

\* C34: a cache hit changes only number_of_uses of the stored entry: after
\* the hit the response and the originating request stored under the key are
\* the ones that were stored before it.
C34_HitKeepsEntry ==
    (call.decision = "response" /\ ~call.raised) =>
        /\ StoredNow.response = Stored.response
        /\ StoredNow.request = Stored.request

\* C35: every response returned with from_cache = true comes with an
\* increment of number_of_uses of the stored entry, a stale response served
\* after a connection error included.
C35_FromCacheCountsUse ==
    (call.from_cache /\ ~call.raised /\ call.retrieved # <<>>) =>
        StoredNow.metadata.number_of_uses
            = Stored.metadata.number_of_uses + 1

----------------------------------------------------------------------------
(* CacheConnectionPool over a backend with a TTL: handle_request with the  *)
(* retrieve and store of FileStorage, SQLiteStorage or InMemoryStorage in  *)
(* the place of the storage contract, one call at a time.                  *)

\* The directory, the table and the cache of the instance.
BackendState == [files |-> files, table |-> table, cache |-> cache]

\* _clear_cache / _remove_expired_caches of the backend in use.
StorageSweep(b) ==
    IF ~HasTTL THEN b
    ELSE IF backend = "file" THEN [b EXCEPT !.files = FileSweep(@)]
    ELSE IF backend = "sqlite" THEN [b EXCEPT !.table = SQLiteSweep(@)]
    ELSE [b EXCEPT !.cache = MemorySweep(@)]

\* store(key, response, request, metadata): the write, then the sweep.
StorageStore(b, key, entry) ==
    StorageSweep(
        IF backend = "file" THEN [b EXCEPT !.files = FileWrite(@, key, entry)]
        ELSE IF backend = "sqlite"
        THEN [b EXCEPT !.table = SQLiteInsert(SQLiteDelete(@, key), key, entry)]
        ELSE [b EXCEPT !.cache = MemoryPut(@, key, entry)])

\* retrieve(key): the sweep, then the read; got is what is returned and
\* state what the instance holds afterwards.
StorageRetrieve(b, key) ==
    LET swept_state == StorageSweep(b) IN
    IF backend = "file"
    THEN [got |-> FileRead(swept_state.files, key).got, state |-> swept_state]
    ELSE IF backend = "sqlite"
    THEN [got |-> SQLiteSelect(swept_state.table, key).got, state |-> swept_state]
    ELSE [got |-> MemoryGet(swept_state.cache, key).got,
          state |-> [swept_state EXCEPT !.cache = MemoryAfterGet(@, key)]]

\* What one call of CacheConnectionPool.handle_request does once retrieve has
\* returned stored_data: the call's record, the entry it gives to store
\* (<<>> when it stores nothing) and whether that entry is the origin's
\* answer.
PoolCall(call_record, stored, from_origin) ==
    [call |-> call_record, stored |-> stored, from_origin |-> from_origin]

\* Lines 62-99, the paths that follow when the controller did not return a
\* Response; a Response is returned here as it was retrieved, without the
\* store of lines 53-58.
PoolOutcome_HitReadOnly(request, stored_data, outcome) ==
    LET key == generate_key(request) IN
    IF stored_data # <<>>
       /\ construct_response_from_cache(request, stored_data[1].response,
              <<stored_data[1].request>>).kind = "response"
    THEN LET stored == stored_data[1]
             res == construct_response_from_cache(
                        request, stored.response, <<stored.request>>)
         IN PoolCall(Returned(request, <<stored>>, res, "hit", <<>>, <<>>,
                              <<>>, res.response, TRUE), <<>>, FALSE)
    ELSE IF stored_data # <<>>
            /\ construct_response_from_cache(request, stored_data[1].response,
                   <<stored_data[1].request>>).kind = "request"
    THEN LET stored == stored_data[1]
             res == construct_response_from_cache(
                        request, stored.response, <<stored.request>>)
         IN IF outcome.kind = "connect_error"
            THEN PoolCall(
                     IF allow_stale /\ allowed_stale(stored.response)
                     THEN Returned(request, <<stored>>, res, "stale",
                                   <<res.request>>, <<ConnectError>>, <<>>,
                                   stored.response, TRUE)
                     ELSE Raised(request, <<stored>>, res, <<res.request>>,
                                 <<ConnectError>>),
                     <<>>, FALSE)
            ELSE LET full_response == handle_validation_response(
                                          stored.response, outcome.response)
                     metadata ==
                         [stored.metadata EXCEPT
                            !.number_of_uses =
                                @ + (IF outcome.response.status = 304
                                     THEN 1 ELSE 0)]
                     entry == StoredResponse(full_response, request, metadata)
                 IN PoolCall(BodyRead(Returned(request, <<stored>>, res,
                                 "revalidated", <<res.request>>, <<outcome>>,
                                 <<entry>>, full_response,
                                 outcome.response.status = 304)),
                             <<entry>>, TRUE)
    ELSE LET res == IF stored_data = <<>> THEN Miss
                    ELSE construct_response_from_cache(
                             request, stored_data[1].response,
                             <<stored_data[1].request>>)
         IN IF outcome.kind = "connect_error"
            THEN PoolCall(Raised(request, stored_data, res, <<request>>,
                                 <<outcome>>), <<>>, FALSE)
            ELSE LET response == outcome.response
                     entry == StoredResponse(response, request,
                                             Metadata(key, now, 0))
                 IN IF is_cachable(request, response)
                    THEN PoolCall(BodyRead(Returned(request, stored_data, res,
                                      "passthrough", <<request>>, <<outcome>>,
                                      <<entry>>, response, FALSE)),
                                  <<entry>>, TRUE)
                    ELSE PoolCall(Returned(request, stored_data, res,
                                      "passthrough", <<request>>, <<outcome>>,
                                      <<>>, response, FALSE), <<>>, FALSE)

\* _pool.py 38-99.
PoolOutcome(request, stored_data, outcome) ==
    LET key == generate_key(request) IN
    IF stored_data # <<>>
       /\ construct_response_from_cache(request, stored_data[1].response,
              <<stored_data[1].request>>).kind = "response"
    THEN LET stored == stored_data[1]
             res == construct_response_from_cache(
                        request, stored.response, <<stored.request>>)
             metadata == [stored.metadata EXCEPT !.number_of_uses = @ + 1]
             entry == StoredResponse(stored.response, request, metadata)
         IN PoolCall(BodyRead(Returned(request, <<stored>>, res, "hit", <<>>,
                              <<>>, <<entry>>, res.response, TRUE)),
                     <<entry>>, FALSE)
    ELSE PoolOutcome_HitReadOnly(request, stored_data, outcome)

\* handle_request(request) over the backend; outcome is what the underlying
\* pool does with the one request the call may hand it.
PoolOverBackend(request, outcome) ==
    /\ wrapper = "pool"
    /\ ops < MaxOps
    /\ LET key == generate_key(request)
           retrieved == StorageRetrieve(BackendState, key)
           done == PoolOutcome(request, retrieved.got, outcome)
           after == IF done.stored = <<>> THEN retrieved.state
                    ELSE StorageStore(retrieved.state, key, done.stored[1])
       IN /\ \A i \in 1..Len(done.stored) :
                 done.stored[i].metadata.number_of_uses <= MaxUses
          /\ call' = done.call
          /\ files' = after.files
          /\ table' = after.table
          /\ cache' = after.cache
          /\ admitted_at' = IF done.from_origin THEN <<now>> ELSE admitted_at
    /\ ops' = ops + 1
    /\ UNCHANGED <<storage, now, allow_stale, cacheable_methods, wrapper,
                   backend, ttl, capacity, lock, setup_completed, pc, arg,
                   result, last, swept, codec, calls, held, twin>>

\* A pool with an empty TTL-configured backend.
InitLifetime ==
    /\ storage = <<>>
    /\ now = 0
    /\ allow_stale \in BOOLEAN
    /\ cacheable_methods = CacheableMethods
    /\ wrapper = "pool"
    /\ call = NoCall
    /\ codec = NoCodec
    /\ calls = NoCalls
    /\ admitted_at = <<>>
    /\ held = {}
    /\ twin = NoTwin
    /\ backend \in {"file", "sqlite", "memory"}
    /\ ttl \in {<<0>>, <<1>>}
    /\ capacity = 1
    /\ BackendIdle

LifetimeRequests == {GetPlain, GetNoCache}

LifetimeOutcomes ==
    {Answer(Moved301), Answer(Ok200ETag), Answer(NotModified304), ConnectError}

NextLifetime ==
    \/ \E request \in LifetimeRequests, outcome \in LifetimeOutcomes :
           PoolOverBackend(request, outcome)
    \/ Tick

SpecLifetime == InitLifetime /\ [][NextLifetime]_vars

\* C36: a cache hit does not extend the TTL lifetime of an entry: an entry
\* admitted from the origin at time t is absent at every retrieve after
\* t + TTL, whatever hits were served in between.
C36_HitKeepsLifetime ==
    (admitted_at # <<>> /\ now > admitted_at[1] + ttl[1]) =>
        StorageRetrieve(BackendState, generate_key(GetPlain)).got = <<>>

----------------------------------------------------------------------------
(* The instance mutex: threads calling store and retrieve on one instance. *)

\* A fresh instance, with or without a TTL.
InitMutex ==
    /\ storage = <<>>
    /\ now = 0
    /\ allow_stale = FALSE
    /\ cacheable_methods = CacheableMethods
    /\ wrapper = "pool"
    /\ call = NoCall
    /\ codec = NoCodec
    /\ calls = NoCalls
    /\ admitted_at = <<>>
    /\ held = {}
    /\ twin = NoTwin
    /\ backend \in {"file", "sqlite", "memory"}
    /\ ttl \in {<<>>, <<1>>}
    /\ capacity = 1
    /\ BackendIdle

\* store and retrieve of one key, by their steps.
NextMutex ==
    \/ \E t \in Threads : StoreCall(t, generate_key(GetPlain), test_entry)
    \/ \E t \in Threads : StoreLock(t)
    \/ \E t \in Threads : StoreWrite(t)
    \/ \E t \in Threads : RetrieveCall(t, generate_key(GetPlain))
    \/ \E t \in Threads : SweepEnter(t)
    \/ \E t \in Threads : SweepRun(t)
    \/ \E t \in Threads : RetrieveLock(t)
    \/ \E t \in Threads : RetrieveRead(t)

\* Fair scheduling: a thread that can go on again and again does go on, so a
\* thread waiting for the lock gets it when it keeps being released.
FairSpecMutex ==
    /\ InitMutex
    /\ [][NextMutex]_vars
    /\ \A t \in Threads : SF_vars(ThreadStep(t))

\* C37: no thread reaches a `with self._lock:` while it holds the lock
\* itself, and under fair scheduling every store or retrieve call that a
\* thread has begun returns.
C37_EveryCallReturns ==
    /\ [](\A t \in Threads : AtLock(t) => lock # t)
    /\ \A t \in Threads : (pc[t] # "idle") ~> (pc[t] = "idle")

\* A thread waits at the lock of a store while the other thread is inside
\* the sweep of its own call.
C37_Witness ==
    \E t \in Threads, u \in Threads :
        /\ t # u
        /\ pc[t] = "store_lock"
        /\ pc[u] \in {"store_sweeping", "retrieve_sweeping"}
        /\ lock = u

----------------------------------------------------------------------------
(* InMemoryStorage and the objects its callers hold.  store keeps deep     *)
(* copies of the response and the request it is given and the metadata     *)
(* object itself; retrieve returns the stored tuple, whose members are the *)
(* objects the cache holds.  held is the set of the members of stored      *)
(* entries that a caller holds as well.                                    *)

Parts == {"response", "request", "metadata"}

Ref(key, part) == [key |-> key, part |-> part]

\* The references that still point into the cache c, the entry of key
\* having been replaced or not.
StillHeld(c, key, replaced) ==
    {r \in held : r.key \in LFUKeys(c) /\ (replaced => r.key # key)}

\* store(key, response, request, metadata), lines 354-373, one caller at a
\* time.
MemoryStore(key, entry) ==
    LET after == StorageStore(BackendState, key, entry)
        evicted == LFUEvicted(cache, key)
    IN /\ backend = "memory"
       /\ ops < MaxOps
       /\ cache' = after.cache
       /\ last' = [k \in StorageKeys |->
                     IF k = key
                     THEN LastStore(<<entry>>, now, FALSE,
                                    last[k].earlier \cup
                                    {last[k].entry[i] : i \in DOMAIN last[k].entry})
                     ELSE IF <<k>> = evicted
                     THEN [last[k] EXCEPT !.evicted = TRUE]
                     ELSE last[k]]
       /\ held' = StillHeld(after.cache, key, TRUE)
                  \cup (IF key \in LFUKeys(after.cache)
                        THEN {Ref(key, "metadata")} ELSE {})
       /\ ops' = ops + 1
       /\ UNCHANGED <<wrapperVars, now, backend, ttl, capacity, files, table,
                      lock, setup_completed, pc, arg, result, swept, codec,
                      calls, admitted_at, twin>>

\* retrieve(key), lines 375-391: the caller is handed the stored objects.
MemoryRetrieve(key) ==
    LET r == StorageRetrieve(BackendState, key) IN
    /\ backend = "memory"
    /\ ops < MaxOps
    /\ cache' = r.state.cache
    /\ held' = StillHeld(r.state.cache, key, FALSE)
               \cup (IF r.got # <<>> THEN {Ref(key, part) : part \in Parts}
                     ELSE {})
    /\ ops' = ops + 1
    /\ UNCHANGED <<wrapperVars, now, backend, ttl, capacity, files, table,
                   lock, setup_completed, pc, arg, result, last, swept, codec,
                   calls, admitted_at, twin>>

\* What a caller's mutation makes of an entry: the body of the response or
\* of the request is replaced, number_of_uses is incremented (as _pool.py 51
\* does with the metadata it retrieved).
Mutated(entry, part) ==
    IF part = "response"
    THEN [entry EXCEPT !.response.content = "mutated"]
    ELSE IF part = "request"
    THEN [entry EXCEPT !.request.content = "mutated"]
    ELSE [entry EXCEPT !.metadata.number_of_uses = @ + 1]

\* A caller mutates an object it holds.
Mutate(ref) ==
    /\ ref \in held
    /\ LET i == LFUIndex(cache, ref.key)
           entry == Mutated(cache[i].value, ref.part)
       IN /\ entry # cache[i].value
          /\ entry.metadata.number_of_uses <= MaxUses
          /\ cache' = [cache EXCEPT ![i].value = entry]
    /\ UNCHANGED <<wrapperVars, now, backend, ttl, capacity, files, table,
                   lock, setup_completed, pc, arg, result, ops, last, swept,
                   auxVars>>

\* A fresh InMemoryStorage, with or without a TTL.
InitShared ==
    /\ storage = <<>>
    /\ now = 0
    /\ allow_stale = FALSE
    /\ cacheable_methods = CacheableMethods
    /\ wrapper = "pool"
    /\ call = NoCall
    /\ codec = NoCodec
    /\ calls = NoCalls
    /\ admitted_at = <<>>
    /\ held = {}
    /\ twin = NoTwin
    /\ backend = "memory"
    /\ ttl \in {<<>>, <<1>>}
    /\ capacity \in {1, 2}
    /\ BackendIdle

NextShared ==
    \/ \E key \in StorageKeys : MemoryStore(key, test_entry)
    \/ \E key \in StorageKeys : MemoryRetrieve(key)
    \/ \E key \in StorageKeys, part \in Parts : Mutate(Ref(key, part))
    \/ Tick

SpecShared == InitShared /\ [][NextShared]_vars

\* C38: what InMemoryStorage holds for a key changes only through store,
\* eviction or the TTL sweep: whatever the callers do with the objects they
\* passed to store or got from retrieve, a retrieve of the key returns the
\* entry that the last store of the key was given.
C38_RetrieveGivesStored ==
    \A key \in StorageKeys :
        LET got == StorageRetrieve(BackendState, key).got IN
        got # <<>> => got = last[key].entry

----------------------------------------------------------------------------
(* CacheConnectionPool and CacheTransport side by side: each over a        *)
(* storage of its own, empty at first, with the same controller, given the *)
(* same requests and the same outcomes of the underlying transport.        *)

\* _transports.py 56-138: what one call of CacheTransport.handle_request does
\* once retreive has returned stored_data: the call's record and the entry
\* it gives to store (<<>> when it stores nothing).
TransportOutcome(request, stored_data, outcome) ==
    LET res == IF stored_data = <<>> THEN Miss
               ELSE construct_response_from_cache(
                        httpcore_request(request), stored_data[1].response,
                        <<>>)
    IN IF stored_data # <<>> /\ res.kind = "response"
       THEN PoolCall(Returned(request, stored_data, res, "hit", <<>>, <<>>,
                              <<>>, res.response, TRUE), <<>>, FALSE)
       ELSE IF outcome.kind = "connect_error"
       THEN PoolCall(Raised(request, stored_data, res,
                            IF stored_data # <<>> /\ res.kind = "request"
                            THEN <<revalidation_request(res)>>
                            ELSE <<request>>, <<outcome>>), <<>>, FALSE)
       ELSE IF stored_data # <<>> /\ res.kind = "request"
       THEN LET full_response == handle_validation_response(
                                     stored_data[1].response, outcome.response)
                entry == StoredResponse(full_response,
                                        httpcore_request(request), NoMetadata)
            IN PoolCall(BodyRead(Returned(request, stored_data, res,
                            "revalidated", <<revalidation_request(res)>>,
                            <<outcome>>, <<entry>>, full_response,
                            outcome.response.status = 304)),
                        <<entry>>, TRUE)
       ELSE LET response == outcome.response
                entry == StoredResponse(response, httpcore_request(request),
                                        NoMetadata)
            IN IF is_cachable(httpcore_request(request), response)
               THEN PoolCall(BodyRead(Returned(request, stored_data, res,
                                 "passthrough", <<request>>, <<outcome>>,
                                 <<entry>>, response, FALSE)),
                             <<entry>>, TRUE)
               ELSE PoolCall(BodyRead(Returned(request, stored_data, res,
                                 "passthrough", <<request>>, <<outcome>>,
                                 <<>>, response, FALSE)), <<>>, FALSE)

\* The storage contents after the call has stored what it stores.
Stores(contents, key, stored) ==
    IF stored = <<>> THEN contents
    ELSE [k \in DOMAIN contents \cup {key} |->
            IF k = key THEN stored[1] ELSE contents[k]]

\* The same request handled by both wrappers, the underlying transport doing
\* the same for both.
BothHandleRequest(request, outcome) ==
    LET key == generate_key(request)
        pool == PoolOutcome(request, retrieve(key), outcome)
        transport ==
            TransportOutcome(request,
                             IF key \in DOMAIN twin.storage
                             THEN <<twin.storage[key]>> ELSE <<>>, outcome)
    IN /\ \A i \in 1..Len(pool.stored) :
              pool.stored[i].metadata.number_of_uses <= MaxUses
       /\ storage' = Stores(storage, key, pool.stored)
       /\ call' = pool.call
       /\ twin' = [storage |-> Stores(twin.storage, key, transport.stored),
                   call |-> transport.call]
       /\ UNCHANGED <<now, allow_stale, cacheable_methods, wrapper,
                      backendVars, codec, calls, admitted_at, held>>

\* Both wrappers over an empty storage, with the same controller.
InitBoth ==
    /\ storage = <<>>
    /\ now = 0
    /\ allow_stale \in BOOLEAN
    /\ cacheable_methods = CacheableMethods
    /\ wrapper = "pool"
    /\ call = NoCall
    /\ codec = NoCodec
    /\ calls = NoCalls
    /\ admitted_at = <<>>
    /\ held = {}
    /\ twin = NoTwin
    /\ backend = "file"
    /\ ttl = <<>>
    /\ capacity = 1
    /\ BackendIdle

BothRequests == {GetPlain, GetNoCache, GetAccept}

BothOutcomes ==
    {Answer(Ok200), Answer(Ok200StaleIfError), Answer(Ok200NoStore),
     Answer(NotModified304), ConnectError}

NextBoth ==
    \/ \E request \in BothRequests, outcome \in BothOutcomes :
           BothHandleRequest(request, outcome)
    \/ Tick

SpecBoth == InitBoth /\ [][NextBoth]_vars

\* C39: given the same storage contents, controller and outcomes of the
\* underlying transport, CacheConnectionPool.handle_request and
\* CacheTransport.handle_request both raise or both return, return the same
\* status and from_cache marker, and leave the same response stored under
\* the same keys.
C39_SameDecisions ==
    /\ call.raised = twin.call.raised
    /\ call.response.status = twin.call.response.status
    /\ call.from_cache = twin.call.from_cache
    /\ DOMAIN storage = DOMAIN twin.storage
    /\ \A key \in DOMAIN storage :
           storage[key].response = twin.storage[key].response

====
